---- MODULE Spec2Model ----
(***************************************************************************)
(* A model of the ResolvePay connector: the credential provider (auth.py), *)
(* the rate limiter (rate_limiter.py), the request pipeline with its       *)
(* response classifier (http_client.py) and the tool methods               *)
(* (mcp_resolvepay_connector.py, models.py).                               *)
(*                                                                         *)
(* Time is counted in ticks; one second is TicksPerSecond ticks.  Python   *)
(* None is the empty sequence <<>> and a present value v is <<v>>.         *)
(***************************************************************************)
EXTENDS Integers, Sequences, FiniteSets, TLC

VARIABLES
    merchant_id,        \* ResolvepayAuth.merchant_id
    api_key,            \* ResolvepayAuth.api_key
    auth_call,          \* arguments and outcome of the last update_credentials
    prepared,           \* the headers the last _prepare_headers call returned
    rendered,           \* one record per get_auth_headers call of the run
    calls_per_second,   \* RateLimiter.calls_per_second
    last_call_time,     \* RateLimiter.last_call_time (Optional)
    now,                \* the clock read by time.time(), in ticks
    limiter_log,        \* one record per rate limiter call of the run
    max_retries,        \* ResolvepayHTTPClient.max_retries
    base_url,           \* ResolvepayHTTPClient.base_url
    timeout,            \* ResolvepayHTTPClient.timeout
    pc,                 \* position of the caller inside _request
    request,            \* method and request_kwargs of the call in progress
    attempt,            \* loop variable of _request
    last_exception,     \* local last_exception of _request
    history,            \* status / exception class of every attempt of the call
    sent,               \* the request as sent by every attempt of the call
    sleeps,             \* the backoff_time of every time.sleep of the call
    response,           \* the response of the last attempt (Optional)
    result,             \* what the call returned or raised (Optional)
    calls,              \* number of _request calls started
    trace,              \* the steps of the _request calls of the run, in order
    tool,               \* the tool method call in progress (Optional)
    tool_result,        \* what the tool method returned or raised (Optional)
    tpc,                \* threads / tasks: position inside (sync_)wait_if_needed
    tcur,               \* threads: local current_time
    twake,              \* threads: earliest wake-up time of time.sleep
    tseen,              \* threads: the last_call_time the wait was computed from
    tleft,              \* threads / tasks: calls each has still to make
    lock,               \* RateLimiter._lock: its holder and its queue of waiters
    writer,             \* the thread inside update_credentials (Optional)
    reader              \* the thread inside get_auth_headers (Optional)

vars == <<merchant_id, api_key, auth_call, prepared, rendered,
          calls_per_second, last_call_time, now, limiter_log,
          max_retries, base_url, timeout,
          pc, request, attempt, last_exception,
          history, sent, sleeps, response, result, calls, trace,
          tool, tool_result,
          tpc, tcur, twake, tseen, tleft, lock, writer, reader>>

authVars    == <<merchant_id, api_key, auth_call, prepared, rendered>>
limiterVars == <<calls_per_second, last_call_time, now, limiter_log>>
clientVars  == <<max_retries, base_url, timeout>>
callVars    == <<pc, request, attempt, last_exception, history, sent, sleeps,
                 response, result, calls, trace, tool, tool_result>>
taskVars    == <<lock, writer, reader>>
threadVars  == <<tpc, tcur, twake, tseen, tleft, taskVars>>

-----------------------------------------------------------------------------
(* Bounds of the exploration *)

MaxRetries == 3     \* max_retries is configured in -1 .. MaxRetries
MaxCeiling == 2     \* calls_per_second is 0 or a divisor of MaxCeiling
MaxCalls == 2       \* execute calls per behaviour
MaxTime == 4        \* the clock is let run freely up to MaxTime ticks
MaxOversleep == 1   \* time.sleep returns at most this many ticks late
MaxAcquires == 3    \* rate limiter calls per behaviour of the limiter alone
NumThreads == 2     \* threads sharing one connector
MaxThreadCalls == 2 \* sync_wait_if_needed calls per thread
MaxRenders == 2     \* get_auth_headers calls per behaviour of the provider alone
MaxToolRetries == 1 \* max_retries is -1 .. MaxToolRetries under the tool methods
MaxSessionRetries == 1 \* max_retries is -1 .. MaxSessionRetries in a session
NumTasks == 3       \* tasks of one event loop, each calling wait_if_needed once

(* Program constants *)

DefaultTimeout == 30
DefaultMaxRetries == 3

TicksPerSecond == MaxCeiling

None == <<>>
Some(v) == <<v>>
IsNone(o) == o = <<>>
Get(o) == o[1]

-----------------------------------------------------------------------------
(* JSON values, tagged by their Python type *)

JStr(s)  == [str |-> s]
JNum(n)  == [num |-> n]
JList(l) == [list |-> l]
JDict(f) == [dict |-> f]
JNull    == [null |-> TRUE]
JBool(b) == [bool |-> b]
EmptyDict == JDict(<<>>)

IsDict(v) == DOMAIN v = {"dict"}
IsList(v) == DOMAIN v = {"list"}
HasKey(v, k) == k \in DOMAIN v.dict
\* Python truthiness of a decoded JSON value
Truthy(v) ==
    IF IsDict(v) THEN DOMAIN v.dict # {}
    ELSE IF IsList(v) THEN v.list # <<>>
    ELSE IF DOMAIN v = {"str"} THEN v.str # ""
    ELSE IF DOMAIN v = {"null"} THEN FALSE
    ELSE IF DOMAIN v = {"bool"} THEN v.bool
    ELSE v.num # 0

-----------------------------------------------------------------------------
(* Credential Provider: auth.py *)

\* ord() of the characters that occur in credentials
Ord ==
    ("m" :> 109) @@ ("k" :> 107) @@ ("1" :> 49) @@ ("2" :> 50) @@
    (":" :> 58) @@ (" " :> 32)

\* str.encode() of an ASCII string
Encode(s) == [i \in 1..Len(s) |-> Ord[SubSeq(s, i, i)]]

B64Alphabet ==
    "ABCDEFGHIJKLMNOPQRSTUVWXYZabcdefghijklmnopqrstuvwxyz0123456789+/"

B64Char(n) == SubSeq(B64Alphabet, n + 1, n + 1)

\* base64.b64encode(bytes).decode()
RECURSIVE B64encode(_)
B64encode(bs) ==
    IF Len(bs) = 0 THEN ""
    ELSE IF Len(bs) = 1 THEN
        B64Char(bs[1] \div 4) \o B64Char((bs[1] % 4) * 16) \o "=="
    ELSE IF Len(bs) = 2 THEN
        B64Char(bs[1] \div 4)
            \o B64Char((bs[1] % 4) * 16 + bs[2] \div 16)
            \o B64Char((bs[2] % 16) * 4) \o "="
    ELSE
        B64Char(bs[1] \div 4)
            \o B64Char((bs[1] % 4) * 16 + bs[2] \div 16)
            \o B64Char((bs[2] % 16) * 4 + bs[3] \div 64)
            \o B64Char(bs[3] % 64)
            \o B64encode(SubSeq(bs, 4, Len(bs)))

\* get_auth_headers joining identifier and secret without the colon
get_auth_headers_without_colon(m, k) ==
    LET auth_string == m \o k
        encoded_auth == B64encode(Encode(auth_string))
    IN  ("Authorization" :> ("Basic " \o encoded_auth))
        @@ ("Content-Type" :> "application/json")
        @@ ("Accept" :> "application/json")

\* ResolvepayAuth.get_auth_headers for the credentials (m, k)
get_auth_headers(m, k) ==
    LET auth_string == m \o ":" \o k
        encoded_auth == B64encode(Encode(auth_string))
    IN  ("Authorization" :> ("Basic " \o encoded_auth))
        @@ ("Content-Type" :> "application/json")
        @@ ("Accept" :> "application/json")

\* The exception ResolvepayAuth.__init__ raises for (m, k), None when the
\* provider is constructed
init_error(m, k) ==
    IF m = "" THEN Some([cls |-> "ResolvepayConfigurationException",
                         message |-> "merchant_id is required for authentication"])
    ELSE IF k = "" THEN Some([cls |-> "ResolvepayConfigurationException",
                              message |-> "api_key is required for authentication"])
    ELSE None

\* The exception update_credentials raises for (m, k), None when it raises none
update_credentials_error(m, k) ==
    IF m = "" THEN Some([cls |-> "ResolvepayConfigurationException",
                         message |-> "merchant_id cannot be empty"])
    ELSE IF k = "" THEN Some([cls |-> "ResolvepayConfigurationException",
                              message |-> "api_key cannot be empty"])
    ELSE None

\* update_credentials storing the identifier before it checks the secret
update_credentials_partial(m, k) ==
    /\ auth_call' = Some([merchant_id |-> m, api_key |-> k,
                           error |-> update_credentials_error(m, k)])
    /\ IF m = "" THEN UNCHANGED <<merchant_id, api_key>>
       ELSE /\ merchant_id' = m
            /\ api_key' = IF k = "" THEN api_key ELSE k
    /\ UNCHANGED <<prepared, rendered>>

\* ResolvepayAuth.update_credentials(m, k)
update_credentials(m, k) ==
    /\ auth_call' = Some([merchant_id |-> m, api_key |-> k,
                           error |-> update_credentials_error(m, k)])
    /\ IF IsNone(update_credentials_error(m, k))
       THEN /\ merchant_id' = m
            /\ api_key' = k
       ELSE UNCHANGED <<merchant_id, api_key>>
    /\ UNCHANGED <<prepared, rendered>>

\* ResolvepayHTTPClient._prepare_headers(additional_headers); the argument is
\* None or a mapping
_prepare_headers(additional_headers) ==
    LET headers == get_auth_headers(merchant_id, api_key)
    IN  IF ~IsNone(additional_headers) /\ DOMAIN Get(additional_headers) # {}
        THEN Get(additional_headers) @@ headers
        ELSE headers

-----------------------------------------------------------------------------
(* Rate Limiter: rate_limiter.py *)

\* RateLimiter.min_interval, in ticks
min_interval ==
    IF calls_per_second > 0 THEN TicksPerSecond \div calls_per_second ELSE 0

\* a wait that is one tick short of the deficit
wait_time_short(current_time, last) ==
    IF ~IsNone(last) /\ current_time - Get(last) < min_interval
    THEN min_interval - (current_time - Get(last)) - 1
    ELSE 0

\* The wait_time sync_wait_if_needed sleeps for when it reads the clock at
\* current_time and sees the timestamp last (0: it does not sleep)
wait_time(current_time, last) ==
    IF ~IsNone(last) /\ current_time - Get(last) < min_interval
    THEN min_interval - (current_time - Get(last))
    ELSE 0

\* The record of an acquire that was called at start, slept for slept ticks
\* and returned at done
Acquired(start, slept, done) ==
    [op |-> "acquire", start |-> start, slept |-> slept, done |-> done]

\* sync_wait_if_needed storing the time it read before the wait
sync_wait_if_needed_stamps_before_wait(oversleep) ==
    IF calls_per_second <= 0
    THEN /\ limiter_log' = Append(limiter_log, Acquired(now, 0, now))
         /\ UNCHANGED <<last_call_time, now>>
    ELSE LET w == wait_time(now, last_call_time)
             woke == IF w > 0 THEN now + w + oversleep ELSE now
         IN  /\ now' = woke
             /\ last_call_time' = Some(now)
             /\ limiter_log' = Append(limiter_log,
                    Acquired(now, woke - now, woke))

\* RateLimiter.sync_wait_if_needed called by a single caller; time.sleep
\* returns oversleep ticks after the requested wait_time
sync_wait_if_needed(oversleep) ==
    IF calls_per_second <= 0
    THEN /\ limiter_log' = Append(limiter_log, Acquired(now, 0, now))
         /\ UNCHANGED <<last_call_time, now>>
    ELSE LET w == wait_time(now, last_call_time)
             woke == IF w > 0 THEN now + w + oversleep ELSE now
         IN  /\ now' = woke
             /\ last_call_time' = Some(woke)
             /\ limiter_log' = Append(limiter_log,
                    Acquired(now, woke - now, woke))

\* RateLimiter.reset
reset ==
    /\ last_call_time' = None
    /\ limiter_log' = Append(limiter_log,
            [op |-> "reset", start |-> now, slept |-> 0, done |-> now])
    /\ UNCHANGED now

-----------------------------------------------------------------------------
(* Response Classifier: http_client.py, _handle_response *)

Return(v) == [kind |-> "return", value |-> v]
ReturnsNone == [kind |-> "none"]
Raise(cls, status_code, message, retry_after, details, response_data) ==
    [kind |-> "raise", cls |-> cls, status_code |-> status_code,
     message |-> message, retry_after |-> retry_after,
     details |-> details, response_data |-> response_data]

\* ResolvepayBaseException subclasses without a status code
BaseException(cls, message, details) ==
    Raise(cls, None, message, None, details, EmptyDict)
\* ResolvepayAPIException(status_code, message, response_data=...)
APIException(status_code, message, response_data) ==
    Raise("ResolvepayAPIException", Some(status_code), message, None,
          EmptyDict, response_data)
\* ResolvepayRateLimitException(message, retry_after=...)
RateLimitException(message, retry_after) ==
    Raise("ResolvepayRateLimitException", Some(429), message, retry_after,
          EmptyDict, EmptyDict)
\* An exception that is no ResolvepayBaseException
PythonException(cls, message) ==
    Raise(cls, None, message, None, EmptyDict, EmptyDict)

\* The body of a customer object the upstream sends, and its decoding
CustomerBody ==
    "{\"id\":\"c1\",\"business_name\":\"Acme\",\"business_address\":\"1 Main St\",\"business_city\":\"NY\",\"business_state\":\"NY\",\"business_zip\":\"10001\",\"business_country\":\"US\",\"business_ap_email\":\"ap@acme.co\",\"email\":\"a@b.co\",\"created_at\":\"2024-01-01\",\"updated_at\":\"2024-01-02\",\"credit_status\":\"approved\"}"

CustomerJson ==
    JDict(("id" :> JStr("c1")) @@ ("business_name" :> JStr("Acme"))
        @@ ("business_address" :> JStr("1 Main St"))
        @@ ("business_city" :> JStr("NY")) @@ ("business_state" :> JStr("NY"))
        @@ ("business_zip" :> JStr("10001"))
        @@ ("business_country" :> JStr("US"))
        @@ ("business_ap_email" :> JStr("ap@acme.co"))
        @@ ("email" :> JStr("a@b.co")) @@ ("created_at" :> JStr("2024-01-01"))
        @@ ("updated_at" :> JStr("2024-01-02"))
        @@ ("credit_status" :> JStr("approved")))

\* json.loads on the bodies the upstream sends; None: JSONDecodeError
JsonLoads(text) ==
    CASE text = "{}" -> Some(EmptyDict)
      [] text = CustomerBody -> Some(CustomerJson)
      [] text = "{\"id\":\"c1\"}" -> Some(JDict("id" :> JStr("c1")))
      [] text = "{\"message\":\"boom\"}" ->
            Some(JDict("message" :> JStr("boom")))
      [] text = "{\"error\":{\"message\":\"bad\"}}" ->
            Some(JDict("error" :> JDict("message" :> JStr("bad"))))
      [] text = "{\"error\":{\"message\":\"bad\",\"details\":[{\"path\":\"email\",\"message\":\"invalid\"}]}}" ->
            Some(JDict("error" :> JDict(
                ("message" :> JStr("bad")) @@
                ("details" :> JList(<<JDict(("path" :> JStr("email")) @@
                                            ("message" :> JStr("invalid")))>>)))))
      [] text = "[1]" -> Some(JList(<<JNum(1)>>))
      [] text = "[]" -> Some(JList(<<>>))
      [] text = "null" -> Some(JNull)
      [] text = "{\"code\":\"E1\"}" -> Some(JDict("code" :> JStr("E1")))
      [] text = "{\"error\":\"bad\"}" -> Some(JDict("error" :> JStr("bad")))
      [] text = "{\"error\":{\"code\":\"E1\"},\"message\":\"top\"}" ->
            Some(JDict(("error" :> JDict("code" :> JStr("E1")))
                       @@ ("message" :> JStr("top"))))
      [] text = "{\"error\":{\"message\":\"bad\",\"details\":[]}}" ->
            Some(JDict("error" :> JDict(
                ("message" :> JStr("bad")) @@ ("details" :> JList(<<>>)))))
      [] text = "{\"error\":{\"message\":\"bad\",\"details\":[{\"path\":\"email\",\"message\":\"invalid\"},{\"message\":\"required\"}]}}" ->
            Some(JDict("error" :> JDict(
                ("message" :> JStr("bad")) @@
                ("details" :> JList(<<JDict(("path" :> JStr("email")) @@
                                            ("message" :> JStr("invalid"))),
                                      JDict("message" :> JStr("required"))>>)))))
      [] OTHER -> None

\* _safe_json_decode
_safe_json_decode(resp) ==
    IF IsNone(JsonLoads(resp.text)) THEN EmptyDict ELSE Get(JsonLoads(resp.text))

\* int() of a header value; None: ValueError
IntOf(s) ==
    CASE s = "0" -> Some(0)
      [] s = "5" -> Some(5)
      [] s = "120" -> Some(120)
      [] OTHER -> None

\* dict.get(key, default) on a JSON dict of strings
GetStr(d, key, default) ==
    IF HasKey(d, key) THEN d.dict[key].str ELSE default

\* ', '.join(detail_messages)
RECURSIVE JoinDetails(_)
JoinDetails(details) ==
    IF Len(details) = 0 THEN ""
    ELSE LET d == details[1]
             one == GetStr(d, "path", "field") \o ": "
                        \o GetStr(d, "message", "error")
         IN  IF Len(details) = 1 THEN one
             ELSE one \o ", " \o JoinDetails(Tail(details))

\* The exception _extract_error_message(error_data, response) raises, None
\* when it returns a message: an "error" member that is no object has no get
_extract_error_message_raises(error_data) ==
    IF Truthy(error_data) /\ IsDict(error_data) /\ HasKey(error_data, "error")
          /\ ~IsDict(error_data.dict["error"])
    THEN Some(PythonException("AttributeError",
                "'str' object has no attribute 'get'"))
    ELSE None

\* _extract_error_message(error_data, response) when it returns
_extract_error_message(error_data, resp) ==
    IF ~Truthy(error_data)
    THEN IF resp.text # "" THEN resp.text ELSE "Unknown error"
    ELSE IF IsDict(error_data) /\ HasKey(error_data, "error")
    THEN LET error_details == error_data.dict["error"]
             message == GetStr(error_details, "message", "Unknown error")
         IN  IF HasKey(error_details, "details")
                /\ IsList(error_details.dict["details"])
                /\ Truthy(error_details.dict["details"])
             THEN message \o " - "
                    \o JoinDetails(error_details.dict["details"].list)
             ELSE message
    ELSE IF IsDict(error_data) /\ HasKey(error_data, "message")
    THEN error_data.dict["message"].str
    ELSE IF resp.text # "" THEN resp.text ELSE "Unknown error"

\* response.is_success
is_success(resp) == resp.status_code >= 200 /\ resp.status_code <= 299

\* a 401 branch that reports the message of the body
Unauthorized_reads_body(resp) ==
    BaseException("ResolvepayAuthenticationException",
        IF resp.text # "" THEN resp.text
        ELSE "Authentication failed. Check merchant_id and api_key.",
        EmptyDict)

\* if response.status_code == 401
Unauthorized(resp) ==
    BaseException("ResolvepayAuthenticationException",
        "Authentication failed. Check merchant_id and api_key.", EmptyDict)

\* if response.status_code == 429
RateLimited(resp) ==
    LET retry_after == resp.retry_after
    IN  IF ~IsNone(retry_after) /\ Get(retry_after) # ""
        THEN IF IsNone(IntOf(Get(retry_after)))
             THEN PythonException("ValueError",
                    "invalid literal for int() with base 10: '"
                        \o Get(retry_after) \o "'")
             ELSE RateLimitException("Rate limit exceeded",
                                     IntOf(Get(retry_after)))
        ELSE RateLimitException("Rate limit exceeded", None)

\* a 404 branch that reports the URL without the method
NotFound_without_method(resp, req) ==
    APIException(404, "Resource not found", JDict("url" :> JStr(req.url)))

\* if response.status_code == 404
NotFound(resp, req) ==
    APIException(404, "Resource not found",
        JDict(("url" :> JStr(req.url)) @@ ("method" :> JStr(req.method))))

\* if response.status_code in [400, 422]
ValidationError(resp) ==
    LET error_data == _safe_json_decode(resp)
        error_type == IF resp.status_code = 400
                      THEN "Validation error"
                      ELSE "Business validation error"
    IN  IF ~IsNone(_extract_error_message_raises(error_data))
        THEN Get(_extract_error_message_raises(error_data))
        ELSE BaseException("ResolvepayValidationException",
                error_type \o ": " \o _extract_error_message(error_data, resp),
                JDict(("status_code" :> JNum(resp.status_code))
                      @@ ("response_data" :> error_data)))

\* if not response.is_success
OtherError(resp) ==
    LET error_data == _safe_json_decode(resp)
        fallback == "API request failed with status "
                        \o ToString(resp.status_code)
    IN  IF Truthy(error_data) /\ ~IsDict(error_data)
        THEN PythonException("AttributeError",
                "'list' object has no attribute 'get'")
        ELSE LET error_message ==
                    IF Truthy(error_data)
                    THEN GetStr(error_data, "message", "")
                    ELSE resp.text
             IN  APIException(resp.status_code,
                    IF error_message # "" THEN error_message ELSE fallback,
                    error_data)

\* a success branch that decodes the body of a 204 response like any other
Successful_decodes_204(resp) ==
    IF resp.text # "" THEN
        IF Truthy(_safe_json_decode(resp))
        THEN Return(_safe_json_decode(resp))
        ELSE Return(JDict("raw_response" :> JStr(resp.text)))
    ELSE Return(EmptyDict)

\* the successful responses
Successful(resp) ==
    IF resp.status_code = 204 THEN
        Return(EmptyDict)
    ELSE IF resp.text # "" THEN
        IF Truthy(_safe_json_decode(resp))
        THEN Return(_safe_json_decode(resp))
        ELSE Return(JDict("raw_response" :> JStr(resp.text)))
    ELSE Return(EmptyDict)

\* ResolvepayHTTPClient._handle_response(response); req is the request the
\* response answers (response.url, response.request.method)
_handle_response(resp, req) ==
    IF resp.status_code = 401 THEN Unauthorized(resp)
    ELSE IF resp.status_code = 429 THEN RateLimited(resp)
    ELSE IF resp.status_code = 404 THEN NotFound(resp, req)
    ELSE IF resp.status_code \in {400, 422} THEN ValidationError(resp)
    ELSE IF ~is_success(resp) THEN OtherError(resp)
    ELSE Successful(resp)

-----------------------------------------------------------------------------
(* Request Pipeline: http_client.py, _request *)

BaseUrl == "https://api.resolvepay.com/v5"

\* endpoint.lstrip("/")
RECURSIVE Lstrip(_)
Lstrip(endpoint) ==
    IF Len(endpoint) > 0 /\ SubSeq(endpoint, 1, 1) = "/"
    THEN Lstrip(SubSeq(endpoint, 2, Len(endpoint)))
    ELSE endpoint

\* _get_full_url for a relative endpoint
_get_full_url(endpoint) == base_url \o "/" \o Lstrip(endpoint)

\* retry_status_codes with 404 slipped in
retry_status_codes_with_404 == {404, 429, 500, 502, 503, 504}

retry_status_codes == {429, 500, 502, 503, 504}

\* a backoff that grows by one second per attempt
Pow2_linear(n) == n + 1

RECURSIVE Pow2(_)
Pow2(n) == IF n = 0 THEN 1 ELSE 2 * Pow2(n - 1)

\* The httpx exception classes each except clause of _request matches
TimeoutExceptions == {"httpx.ReadTimeout", "httpx.ConnectTimeout"}
ConnectErrors == {"httpx.ConnectError"}
HTTPStatusErrors == {"httpx.HTTPStatusError"}
RequestErrors ==
    TimeoutExceptions \cup ConnectErrors
        \cup {"httpx.ReadError", "httpx.TooManyRedirects"}

\* What one pass through the loop body decides
Continue(backoff_time, last) ==
    [op |-> "continue", backoff_time |-> backoff_time, last_exception |-> last]
Finish(res, last) ==
    [op |-> "finish", result |-> res, last_exception |-> last]

\* except httpx.TimeoutException
OnTimeoutException(e, att) ==
    IF att < max_retries THEN Continue(Pow2(att), Some(e))
    ELSE Finish(APIException(408,
            "Request timeout after " \o ToString(timeout) \o " seconds",
            EmptyDict), Some(e))

\* except httpx.ConnectError letting the last connection error escape
OnConnectError_reraises(e, att) ==
    IF att < max_retries THEN Continue(Pow2(att), Some(e))
    ELSE Finish(e, Some(e))

\* except httpx.ConnectError
OnConnectError(e, att) ==
    IF att < max_retries THEN Continue(Pow2(att), Some(e))
    ELSE Finish(APIException(503, "Connection error: " \o e.message,
                             EmptyDict), Some(e))

\* except httpx.HTTPStatusError
OnHTTPStatusError(e, last) ==
    Finish(APIException(Get(e.status_code),
            "HTTP status error: " \o e.message, EmptyDict), last)

\* except httpx.RequestError going on after the last attempt as well
OnRequestError_always_continues(e, att) ==
    Continue(Pow2(att), Some(e))

\* except httpx.RequestError
OnRequestError(e, att) ==
    IF att < max_retries THEN Continue(Pow2(att), Some(e))
    ELSE Finish(APIException(500, "Request error: " \o e.message,
                             EmptyDict), Some(e))

\* except Exception
OnException(e, last) ==
    Finish(APIException(500, "Unexpected error: " \o e.message, EmptyDict),
           last)

\* The except clauses of _request in their order, for the exception e raised
\* inside the try block of iteration att
ExceptClauses(e, att, last) ==
    IF e.cls \in TimeoutExceptions THEN OnTimeoutException(e, att)
    ELSE IF e.cls \in ConnectErrors THEN OnConnectError(e, att)
    ELSE IF e.cls \in HTTPStatusErrors THEN OnHTTPStatusError(e, last)
    ELSE IF e.cls \in RequestErrors THEN OnRequestError(e, att)
    ELSE OnException(e, last)

\* The decision of an iteration in which _handle_response was called
Classifier(decision) == ("classified" :> TRUE) @@ decision

\* a try block that calls the Classifier before it looks at the status
TryBlock_classifies_first(resp, req, att, last) ==
    LET r == _handle_response(resp, req)
    IN  Classifier(
            IF resp.status_code \in retry_status_codes /\ att < max_retries
            THEN Continue(Pow2(att), last)
            ELSE IF r.kind = "raise" THEN ExceptClauses(r, att, last)
            ELSE Finish(r, last))

\* a try block that retries whatever the status is
TryBlock_retries_any_status(resp, req, att, last) ==
    IF att < max_retries
    THEN Continue(Pow2(att), last)
    ELSE LET r == _handle_response(resp, req)
         IN  Classifier(IF r.kind = "raise" THEN ExceptClauses(r, att, last)
                        ELSE Finish(r, last))

\* The try block of _request once the transport call returned resp
TryBlock(resp, req, att, last) ==
    IF resp.status_code \in retry_status_codes /\ att < max_retries
    THEN Continue(Pow2(att), last)
    ELSE LET r == _handle_response(resp, req)
         IN  Classifier(IF r.kind = "raise" THEN ExceptClauses(r, att, last)
                        ELSE Finish(r, last))

\* One iteration of the for loop; o is how the transport call ended
Iteration(o, req, att, last) ==
    IF o.type = "response" THEN TryBlock(o.resp, req, att, last)
    ELSE ExceptClauses(o.exc, att, last)

\* The code after the loop
AfterLoop(last) ==
    IF ~IsNone(last)
    THEN APIException(503,
            "Request failed after " \o ToString(max_retries) \o " retries: "
                \o Get(last).message, EmptyDict)
    ELSE ReturnsNone

Response(status_code, retry_after, text) ==
    [status_code |-> status_code, retry_after |-> retry_after, text |-> text]
Responded(resp) == [type |-> "response", resp |-> resp]
Raised(exc) == [type |-> "error", exc |-> exc]

StatusOf(status_code) == [status |-> status_code]
ErrorOf(cls) == [error |-> cls]
Kind(o) ==
    IF o.type = "response" THEN StatusOf(o.resp.status_code)
    ELSE ErrorOf(o.exc.cls)

\* One step of a _request call: the rate limiter call, the header rendering,
\* a transport call, the Classifier, or the code after the loop
Step(ev, call, att, at) ==
    [ev |-> ev, call |-> call, attempt |-> att, at |-> at]

\* a transport call that renders the headers again
client_call_rerenders(req) ==
    [req EXCEPT !.headers = get_auth_headers(merchant_id, api_key) @@ @]

\* self.client.get / post / put / delete / request(**request_kwargs): the
\* request the transport call of an attempt sends
client_call(req) == req

\* _request rendering the headers before it calls the rate limiter
BeforeLoop_renders_first(call, at) ==
    << Step("headers", call, 0, at), Step("acquire", call, 0, at) >>

\* The steps of _request before its loop, the rate limiter call having
\* returned at the time at
BeforeLoop(call, at) ==
    << Step("acquire", call, 0, at), Step("headers", call, 0, at) >>

\* a loop that goes on where the loop of the call before stopped
LoopStart_resumes ==
    /\ attempt' = attempt
    /\ last_exception' = last_exception

\* last_exception = None; for attempt in range(...): the locals of the loop
LoopStart ==
    /\ attempt' = 0
    /\ last_exception' = None

\* _request up to the loop: rate limiter, URL, headers, request_kwargs
Request(method, endpoint, data, params, headers, oversleep) ==
    /\ pc = "idle"
    /\ calls < MaxCalls
    /\ sync_wait_if_needed(oversleep)
    /\ request' = [method |-> method,
                   url |-> _get_full_url(endpoint),
                   headers |-> _prepare_headers(headers),
                   params |-> IF ~IsNone(params) /\ Truthy(Get(params))
                              THEN params ELSE None,
                   json |-> IF ~IsNone(data) /\ Truthy(Get(data))
                            THEN data ELSE None]
    /\ LoopStart
    /\ history' = <<>>
    /\ sent' = <<>>
    /\ sleeps' = <<>>
    /\ response' = None
    /\ result' = None
    /\ calls' = calls + 1
    /\ trace' = trace \o BeforeLoop(calls + 1, now')
    /\ pc' = "loop"
    /\ prepared' = Some(_prepare_headers(headers))
    /\ UNCHANGED <<merchant_id, api_key, auth_call, rendered,
                   calls_per_second, clientVars, tool, tool_result,
                   threadVars>>

\* One iteration of the loop of _request: the transport call ends as o, and
\* the iteration either backs off and continues or ends the call
Attempt(o, oversleep) ==
    /\ pc = "loop"
    /\ attempt < max_retries + 1
    /\ LET st == Iteration(o, request, attempt, last_exception)
       IN  /\ history' = Append(history, Kind(o))
           /\ sent' = Append(sent, client_call(request))
           /\ trace' = trace \o << Step("attempt", calls, attempt, now) >>
                    \o IF "classified" \in DOMAIN st
                       THEN << Step("classify", calls, attempt, now) >>
                       ELSE << >>
           /\ last_exception' = st.last_exception
           /\ IF st.op = "continue"
              THEN /\ sleeps' = Append(sleeps, st.backoff_time)
                   /\ now' = now + st.backoff_time * TicksPerSecond + oversleep
                   /\ attempt' = attempt + 1
                   /\ response' = None
                   /\ UNCHANGED <<result, pc>>
              ELSE /\ result' = Some(st.result)
                   /\ response' = IF o.type = "response"
                                  THEN Some(o.resp) ELSE None
                   /\ pc' = "done"
                   /\ UNCHANGED <<sleeps, now, attempt>>
    /\ UNCHANGED <<authVars, calls_per_second, last_call_time, limiter_log,
                   clientVars, request, calls, tool, tool_result,
                   threadVars>>

\* The loop of _request ends without a return or a raise
Exhausted ==
    /\ pc = "loop"
    /\ ~(attempt < max_retries + 1)
    /\ result' = Some(AfterLoop(last_exception))
    /\ trace' = Append(trace, Step("after_loop", calls, attempt, now))
    /\ pc' = "done"
    /\ UNCHANGED <<authVars, limiterVars, clientVars, request, attempt,
                   last_exception, history, sent, sleeps, response, calls,
                   tool, tool_result, threadVars>>

-----------------------------------------------------------------------------
(* The environment: what callers pass in and how the upstream answers *)

Ceilings == {0} \cup {c \in 1..MaxCeiling : MaxCeiling % c = 0}

\* The arguments of get / post / put / delete calls
CallInputs ==
    { [method |-> "GET", endpoint |-> "customers/c1", data |-> None,
       params |-> None, headers |-> None],
      [method |-> "POST", endpoint |-> "/customers",
       data |-> Some(JDict("email" :> JStr("a@b.co"))),
       params |-> None, headers |-> Some("X-Request-Id" :> "r1")] }

\* The responses the upstream may send
Responses ==
    { Response(200, None, "{\"id\":\"c1\"}"),
      Response(200, None, ""),
      Response(204, None, ""),
      Response(400, None, "{\"message\":\"boom\"}"),
      Response(401, None, ""),
      Response(403, None, "{\"message\":\"boom\"}"),
      Response(404, None, ""),
      Response(422, None, "{\"error\":{\"message\":\"bad\",\"details\":[{\"path\":\"email\",\"message\":\"invalid\"}]}}"),
      Response(429, Some("5"), ""),
      Response(429, None, ""),
      Response(500, None, ""),
      Response(502, None, "bad gateway"),
      Response(503, None, "{\"message\":\"boom\"}"),
      Response(504, None, "") }

\* The exceptions the transport call may raise
TransportErrors ==
    { PythonException("httpx.ReadTimeout", "The read operation timed out"),
      PythonException("httpx.ConnectError", "[Errno 111] Connection refused"),
      PythonException("httpx.TooManyRedirects",
                      "Exceeded maximum allowed redirects."),
      Raise("httpx.HTTPStatusError", Some(418),
            "Client error '418 I'm a teapot'", None, EmptyDict, EmptyDict),
      PythonException("RuntimeError",
            "Cannot send a request, as the client has been closed.") }

Upstream ==
    {Responded(r) : r \in Responses} \cup {Raised(e) : e \in TransportErrors}

-----------------------------------------------------------------------------
(* One execute call on a freshly constructed connector *)

\* The credentials callers pass to the constructor and to update_credentials
IdInputs == {"", "m1", "m2", "m1:k1"}
KeyInputs == {"", "k1", "k2", "k1:k2"}

\* The additional_headers callers pass to _prepare_headers
ExtraHeaders ==
    { None, Some(<<>>), Some("X-Request-Id" :> "r1"),
      Some("Authorization" :> "Bearer caller"),
      Some("Content-Type" :> "text/plain"),
      Some("Accept" :> "*/*") }

InitAuth ==
    /\ merchant_id = "m1"
    /\ api_key = "k1"
    /\ auth_call = None
    /\ prepared = None
    /\ rendered = <<>>

InitLimiter ==
    /\ calls_per_second \in Ceilings
    /\ last_call_time = None
    /\ now = 0
    /\ limiter_log = <<>>

\* ResolvepayHTTPClient.__init__: base_url and timeout as configured
InitClient ==
    /\ base_url = BaseUrl
    /\ timeout = DefaultTimeout

InitCall ==
    /\ pc = "idle"
    /\ request = None
    /\ attempt = 0
    /\ last_exception = None
    /\ history = <<>>
    /\ sent = <<>>
    /\ sleeps = <<>>
    /\ response = None
    /\ result = None
    /\ calls = 0
    /\ trace = <<>>
    /\ tool = None
    /\ tool_result = None

\* No task holds or waits for RateLimiter._lock; no thread is inside the
\* Credential Provider
InitTasks ==
    /\ lock = [holder |-> None, waiters |-> <<>>]
    /\ writer = None
    /\ reader = None

InitThreads ==
    /\ tpc = <<>>
    /\ tcur = <<>>
    /\ twake = <<>>
    /\ tseen = <<>>
    /\ tleft = <<>>
    /\ InitTasks

Init ==
    /\ InitAuth
    /\ InitLimiter
    /\ InitCall
    /\ InitThreads
    /\ max_retries \in -1..MaxRetries
    /\ InitClient

Next ==
    \/ \E c \in CallInputs :
          Request(c.method, c.endpoint, c.data, c.params, c.headers, 0)
    \/ \E o \in Upstream : Attempt(o, 0)
    \/ Exhausted

Spec == Init /\ [][Next]_vars

\* The transport call of every attempt ends, by a response or an exception
\* (the client has timeouts), every time.sleep returns, and the code after
\* the loop runs when the loop is over
SpecLive ==
    /\ Spec
    /\ WF_vars(\E o \in Upstream : Attempt(o, 0))
    /\ WF_vars(Exhausted)

-----------------------------------------------------------------------------
(* The Credential Provider and the header merge on their own *)

UpdateCredentials(m, k) ==
    /\ update_credentials(m, k)
    /\ UNCHANGED <<limiterVars, clientVars, callVars, threadVars>>

PrepareHeaders(additional_headers) ==
    /\ prepared' = Some(_prepare_headers(additional_headers))
    /\ UNCHANGED <<merchant_id, api_key, auth_call, rendered, limiterVars,
                   clientVars, callVars, threadVars>>

InitConstructed ==
    /\ \E m \in IdInputs, k \in KeyInputs :
          /\ IsNone(init_error(m, k))
          /\ merchant_id = m
          /\ api_key = k
    /\ auth_call = None
    /\ prepared = None
    /\ rendered = <<>>
    /\ calls_per_second = 0
    /\ last_call_time = None
    /\ now = 0
    /\ limiter_log = <<>>
    /\ InitCall
    /\ InitThreads
    /\ max_retries = DefaultMaxRetries
    /\ InitClient

NextAuth ==
    \/ \E m \in IdInputs, k \in KeyInputs : UpdateCredentials(m, k)
    \/ \E h \in ExtraHeaders : PrepareHeaders(h)

SpecAuth == InitConstructed /\ [][NextAuth]_vars

\* self.auth.get_auth_headers() called on the provider
GetAuthHeaders ==
    /\ Len(rendered) < MaxRenders
    /\ rendered' = Append(rendered,
            [merchant_id |-> merchant_id, api_key |-> api_key,
             headers |-> get_auth_headers(merchant_id, api_key)])
    /\ UNCHANGED <<merchant_id, api_key, auth_call, prepared, limiterVars,
                   clientVars, callVars, threadVars>>

NextRender ==
    \/ \E m \in IdInputs, k \in KeyInputs : UpdateCredentials(m, k)
    \/ GetAuthHeaders

SpecRender == InitConstructed /\ [][NextRender]_vars

-----------------------------------------------------------------------------
(* The Rate Limiter on its own, one caller *)

Tick ==
    /\ \/ now < MaxTime
       \/ \E t \in DOMAIN tpc : tpc[t] = "sleeping" /\ twake[t] > now
    /\ now' = now + 1
    /\ UNCHANGED <<authVars, calls_per_second, last_call_time, limiter_log,
                   clientVars, callVars, threadVars>>

Acquire(oversleep) ==
    /\ Len(limiter_log) < MaxAcquires
    /\ sync_wait_if_needed(oversleep)
    /\ UNCHANGED <<authVars, calls_per_second, clientVars, callVars,
                   threadVars>>

Reset ==
    /\ Len(limiter_log) < MaxAcquires
    /\ reset
    /\ UNCHANGED <<authVars, calls_per_second, clientVars, callVars,
                   threadVars>>

InitLimiterAlone ==
    /\ InitAuth
    /\ InitLimiter
    /\ InitCall
    /\ InitThreads
    /\ max_retries = DefaultMaxRetries
    /\ InitClient

NextLimiter ==
    \/ \E oversleep \in 0..MaxOversleep : Acquire(oversleep)
    \/ Reset
    \/ Tick

SpecLimiter == InitLimiterAlone /\ [][NextLimiter]_vars

-----------------------------------------------------------------------------
(* The Rate Limiter shared by threads: sync_wait_if_needed line by line *)

Threads == 1..NumThreads

\* Line 40: the call starts; a disabled limiter returns at once
T_Call(t) ==
    /\ tpc[t] = "idle"
    /\ tleft[t] > 0
    /\ IF calls_per_second <= 0
       THEN /\ tleft' = [tleft EXCEPT ![t] = @ - 1]
            /\ limiter_log' = Append(limiter_log, Acquired(now, 0, now))
            /\ UNCHANGED tpc
       ELSE /\ tpc' = [tpc EXCEPT ![t] = "read_clock"]
            /\ UNCHANGED <<tleft, limiter_log>>
    /\ UNCHANGED <<authVars, calls_per_second, last_call_time, now,
                   clientVars, callVars, tcur, twake, tseen,
                   taskVars>>

\* Line 43: current_time = time.time()
T_ReadClock(t) ==
    /\ tpc[t] = "read_clock"
    /\ tcur' = [tcur EXCEPT ![t] = now]
    /\ tpc' = [tpc EXCEPT ![t] = "check"]
    /\ UNCHANGED <<authVars, limiterVars, clientVars, callVars, twake,
                   tseen, tleft,
                   taskVars>>

\* Lines 45-49: read last_call_time, compute wait_time, start to sleep
T_Check(t) ==
    /\ tpc[t] = "check"
    /\ tseen' = [tseen EXCEPT ![t] = Some(last_call_time)]
    /\ IF wait_time(tcur[t], last_call_time) > 0
       THEN /\ twake' = [twake EXCEPT
                            ![t] = now + wait_time(tcur[t], last_call_time)]
            /\ tpc' = [tpc EXCEPT ![t] = "sleeping"]
       ELSE /\ tpc' = [tpc EXCEPT ![t] = "write"]
            /\ UNCHANGED twake
    /\ UNCHANGED <<authVars, limiterVars, clientVars, callVars, tcur, tleft,
                   taskVars>>

\* Lines 49-50: time.sleep returns; current_time = time.time()
T_Wake(t) ==
    /\ tpc[t] = "sleeping"
    /\ now >= twake[t]
    /\ tcur' = [tcur EXCEPT ![t] = now]
    /\ tpc' = [tpc EXCEPT ![t] = "write"]
    /\ UNCHANGED <<authVars, limiterVars, clientVars, callVars, twake,
                   tseen, tleft,
                   taskVars>>

\* Line 52: self.last_call_time = current_time; the call returns
T_Write(t) ==
    /\ tpc[t] = "write"
    /\ last_call_time' = Some(tcur[t])
    /\ limiter_log' = Append(limiter_log,
            [op |-> "acquire", start |-> tcur[t], slept |-> 0,
             done |-> tcur[t], thread |-> t, seen |-> Get(tseen[t])])
    /\ tpc' = [tpc EXCEPT ![t] = "idle"]
    /\ tseen' = [tseen EXCEPT ![t] = None]
    /\ tleft' = [tleft EXCEPT ![t] = @ - 1]
    /\ UNCHANGED <<authVars, calls_per_second, now, clientVars, callVars,
                   tcur, twake,
                   taskVars>>

InitShared ==
    /\ InitAuth
    /\ calls_per_second \in Ceilings
    /\ last_call_time = None
    /\ now = 0
    /\ limiter_log = <<>>
    /\ InitCall
    /\ max_retries = DefaultMaxRetries
    /\ InitClient
    /\ tpc = [t \in Threads |-> "idle"]
    /\ tcur = [t \in Threads |-> 0]
    /\ twake = [t \in Threads |-> 0]
    /\ tseen = [t \in Threads |-> None]
    /\ tleft = [t \in Threads |-> MaxThreadCalls]
    /\ InitTasks

NextThreads ==
    \/ \E t \in Threads :
          T_Call(t) \/ T_ReadClock(t) \/ T_Check(t) \/ T_Wake(t) \/ T_Write(t)
    \/ Tick

SpecThreads == InitShared /\ [][NextThreads]_vars

-----------------------------------------------------------------------------
(* The Response Classifier on its own: _handle_response as a function *)

\* The statuses, Retry-After header values and body texts of the responses
\* handed to the Classifier
ClassifierStatuses ==
    {200, 201, 204, 302, 400, 401, 403, 404, 409, 422, 429, 500, 503}

RetryAfterValues ==
    { None, Some(""), Some("0"), Some("5"), Some("120"),
      Some("Wed, 21 Oct 2026 07:28:00 GMT") }

Bodies ==
    { "", "{}", "[]", "[1]", "null", "not json",
      "{\"id\":\"c1\"}",
      "{\"code\":\"E1\"}",
      "{\"message\":\"boom\"}",
      "{\"error\":\"bad\"}",
      "{\"error\":{\"message\":\"bad\"}}",
      "{\"error\":{\"code\":\"E1\"},\"message\":\"top\"}",
      "{\"error\":{\"message\":\"bad\",\"details\":[]}}",
      "{\"error\":{\"message\":\"bad\",\"details\":[{\"path\":\"email\",\"message\":\"invalid\"}]}}",
      "{\"error\":{\"message\":\"bad\",\"details\":[{\"path\":\"email\",\"message\":\"invalid\"},{\"message\":\"required\"}]}}" }

ClassifierResponses ==
    { Response(c, h, b) :
        c \in ClassifierStatuses, h \in RetryAfterValues, b \in Bodies }

\* response.url and response.request.method of the request that was answered
ClassifierRequests ==
    { [method |-> c.method, url |-> _get_full_url(c.endpoint)] :
        c \in CallInputs }

\* self._handle_response(response), once per behaviour
HandleResponse(resp, req) ==
    /\ pc = "idle"
    /\ request' = req
    /\ response' = Some(resp)
    /\ result' = Some(_handle_response(resp, req))
    /\ pc' = "classified"
    /\ UNCHANGED <<authVars, limiterVars, clientVars, attempt, last_exception,
                   history, sent, sleeps, calls, trace, tool, tool_result,
                   threadVars>>

NextClassifier ==
    \E resp \in ClassifierResponses, req \in ClassifierRequests :
        HandleResponse(resp, req)

SpecClassifier == InitLimiterAlone /\ [][NextClassifier]_vars

-----------------------------------------------------------------------------
(* Tool methods: mcp_resolvepay_connector.py, models.py *)

\* arguments.get(field); JNull when the field is absent
ArgGet(arguments, field) ==
    IF field \in DOMAIN arguments THEN arguments[field] ELSE JNull

\* ', '.join(strings)
RECURSIVE Join(_)
Join(strings) ==
    IF Len(strings) = 0 THEN ""
    ELSE IF Len(strings) = 1 THEN strings[1]
    ELSE strings[1] \o ", " \o Join(Tail(strings))

\* character in text
Contains(text, character) ==
    \E i \in 1..Len(text) : SubSeq(text, i, i) = character

\* re.match(r"^\d{3}-\d{3}-\d{4}$", text)
MatchesPhone(text) ==
    /\ Len(text) = 12
    /\ \A i \in 1..12 :
          IF i \in {4, 8} THEN SubSeq(text, i, i) = "-"
          ELSE SubSeq(text, i, i) \in
                  {"0", "1", "2", "3", "4", "5", "6", "7", "8", "9"}

ValidationException(message) ==
    BaseException("ResolvepayValidationException", message, EmptyDict)

required_fields ==
    << "business_name", "business_address", "business_city", "business_state",
       "business_zip", "business_country", "business_ap_email", "email" >>

missing_fields(customer_data) ==
    SelectSeq(required_fields,
              LAMBDA field : ~Truthy(ArgGet(customer_data, field)))

\* The exception _validate_customer_data(customer_data, is_update) raises,
\* None when the data passes
_validate_customer_data(customer_data, is_update) ==
    LET business_country == ArgGet(customer_data, "business_country")
        email == ArgGet(customer_data, "email")
        business_ap_email == ArgGet(customer_data, "business_ap_email")
        business_phone == ArgGet(customer_data, "business_ap_phone")
    IN  IF ~is_update /\ missing_fields(customer_data) # <<>>
        THEN Some(ValidationException("Missing required fields: "
                    \o Join(missing_fields(customer_data))))
        ELSE IF Truthy(business_country) /\ Len(business_country.str) # 2
        THEN Some(ValidationException(
                "business_country must be a 2-letter ISO 3166-1 country code"))
        ELSE IF Truthy(email) /\ ~Contains(email.str, "@")
        THEN Some(ValidationException("Invalid email format for email"))
        ELSE IF Truthy(business_ap_email)
                  /\ ~Contains(business_ap_email.str, "@")
        THEN Some(ValidationException(
                "Invalid email format for business_ap_email"))
        ELSE IF Truthy(business_phone) /\ ~MatchesPhone(business_phone.str)
        THEN Some(ValidationException(
                "Invalid phone number format. Must be ###-###-#### (e.g., 212-555-0123), got: "
                    \o business_phone.str))
        ELSE None

\* models.PaymentTerms, models.CreditCheckStatus
PaymentTerms == {"net7", "net10", "net15", "net30", "net45", "net60", "net90"}
CreditCheckStatus ==
    {"pending", "in_progress", "completed", "failed", "approved", "denied"}

\* The exception CustomerRequest.from_dict(data) raises for data that passed
\* _validate_customer_data, None when it builds the request
CustomerRequest_from_dict_raises(data) ==
    IF Truthy(ArgGet(data, "default_terms"))
          /\ data["default_terms"].str \notin PaymentTerms
    THEN Some(PythonException("ValueError",
            "'" \o data["default_terms"].str
                \o "' is not a valid PaymentTerms"))
    ELSE None

\* CustomerRequest.from_dict(data).to_dict()
CustomerRequest_to_dict(data) ==
    LET optional == {"business_ap_phone", "business_ap_phone_extension",
                     "default_terms"}
        kept == {required_fields[i] : i \in DOMAIN required_fields}
                    \cup {f \in optional : Truthy(ArgGet(data, f))}
    IN  JDict([f \in kept |-> data[f]])

\* The fields of CustomerResponse without a default, in the order from_dict
\* reads them, and the ones with the default None
CustomerResponse_required ==
    << "id", "business_name", "business_address", "business_city",
       "business_state", "business_zip", "business_country",
       "business_ap_email", "email", "created_at", "updated_at" >>
CustomerResponse_optional ==
    { "amount_approved", "amount_available", "business_ap_phone",
      "business_ap_phone_extension", "default_terms", "credit_status" }

\* The exception CustomerResponse.from_dict(data) raises, None when it
\* builds the response; data is what _request returned
CustomerResponse_from_dict_raises(data) ==
    IF data.kind = "none"
    THEN Some(PythonException("TypeError",
                "'NoneType' object is not subscriptable"))
    ELSE LET missing == SelectSeq(CustomerResponse_required,
                            LAMBDA f : ~HasKey(data.value, f))
         IN  IF missing # <<>>
             THEN Some(PythonException("KeyError", "'" \o missing[1] \o "'"))
             ELSE None

\* CustomerResponse.from_dict(data).to_dict() for a mapping data
CustomerResponse_to_dict(data) ==
    JDict([f \in {CustomerResponse_required[i] :
                    i \in DOMAIN CustomerResponse_required}
                 \cup CustomerResponse_optional |->
             IF HasKey(data, f) THEN data.dict[f] ELSE JNull])

\* The exception CreditCheckResult.from_dict(data) raises, None when it
\* builds the result
CreditCheckResult_from_dict_raises(data) ==
    IF HasKey(data, "status") /\ Truthy(data.dict["status"])
          /\ data.dict["status"].str \notin CreditCheckStatus
    THEN Some(PythonException("ValueError",
            "'" \o data.dict["status"].str
                \o "' is not a valid CreditCheckStatus"))
    ELSE None

\* CreditCheckResult.from_dict(data).to_dict()
CreditCheckResult_to_dict(data) ==
    JDict([f \in {"customer_id", "status", "amount_approved",
                  "amount_available", "credit_limit", "created_at",
                  "updated_at", "notes"} |->
             IF f = "status"
             THEN IF HasKey(data, "status") /\ Truthy(data.dict["status"])
                  THEN data.dict["status"] ELSE JStr("pending")
             ELSE IF f = "customer_id"
             THEN IF HasKey(data, f) THEN data.dict[f] ELSE JStr("")
             ELSE IF HasKey(data, f) THEN data.dict[f] ELSE JNull])

\* What a tool method does up to its HTTP call: it raises inside its try
\* block, returns without a call, or calls the HTTP client
Raises(exc) == [op |-> "raise", exc |-> exc]
Returns(value) == [op |-> "return", value |-> value]
Calls(method, endpoint, data, params) ==
    [op |-> "request", method |-> method, endpoint |-> endpoint,
     data |-> data, params |-> params]

\* a tool method that calls the HTTP client without looking at customer_id
customer_id_required_unchecked(arguments, then) ==
    IF ~Truthy(ArgGet(arguments, "customer_id"))
    THEN Calls("GET", "customers/None", None, None)
    ELSE then

\* customer_id = arguments.get("customer_id"); if not customer_id: raise
customer_id_required(arguments, then) ==
    IF ~Truthy(ArgGet(arguments, "customer_id"))
    THEN Raises(ValidationException("customer_id is required"))
    ELSE then

\* search_params of search_customers
search_params(arguments) ==
    LET Item(cond, key, value) == IF cond THEN key :> value ELSE <<>>
        email == ArgGet(arguments, "email")
        business_name == ArgGet(arguments, "business_name")
        page == ArgGet(arguments, "page")
        offset == ArgGet(arguments, "offset")
        limit == ArgGet(arguments, "limit")
        per_page == IF "limit" \in DOMAIN arguments THEN limit.num ELSE 25
        Min(a, b) == IF a < b THEN a ELSE b
        Max(a, b) == IF a > b THEN a ELSE b
    IN  Item(Truthy(email), "filter[email][eq]", email)
        @@ Item(Truthy(business_name), "filter[business_name][eq]",
                business_name)
        @@ Item(Truthy(page) \/ Truthy(offset), "page",
                IF Truthy(page) THEN page
                ELSE JStr(ToString((offset.num \div per_page) + 1)))
        @@ Item(Truthy(limit), "limit", JNum(Max(25, Min(100, limit.num))))

\* The try block of the tool method name up to its HTTP call
BeforeRequest(name, arguments) ==
    LET customer_id == ArgGet(arguments, "customer_id")
    IN  CASE name = "create_customer" ->
                IF ~IsNone(_validate_customer_data(arguments, FALSE))
                THEN Raises(Get(_validate_customer_data(arguments, FALSE)))
                ELSE IF ~IsNone(CustomerRequest_from_dict_raises(arguments))
                THEN Raises(Get(CustomerRequest_from_dict_raises(arguments)))
                ELSE Calls("POST", "customers",
                           Some(CustomerRequest_to_dict(arguments)), None)
          [] name = "get_customer" ->
                customer_id_required(arguments,
                    Calls("GET", "customers/" \o customer_id.str, None, None))
          [] name = "update_customer" ->
                LET update_data ==
                        [f \in DOMAIN arguments \ {"customer_id"} |->
                            arguments[f]]
                IN  customer_id_required(arguments,
                        IF DOMAIN update_data # {}
                            /\ ~IsNone(_validate_customer_data(update_data, TRUE))
                        THEN Raises(Get(
                                _validate_customer_data(update_data, TRUE)))
                        ELSE Calls("PUT", "customers/" \o customer_id.str,
                                   Some(JDict(update_data)), None))
          [] name = "search_customers" ->
                IF ~Truthy(ArgGet(arguments, "page"))
                      /\ Truthy(ArgGet(arguments, "offset"))
                      /\ "limit" \in DOMAIN arguments
                      /\ arguments["limit"].num = 0
                THEN Raises(PythonException("ZeroDivisionError",
                        "integer division or modulo by zero"))
                ELSE Calls("GET", "customers", None,
                           Some(JDict(search_params(arguments))))
          [] name = "request_customer_credit_check" ->
                customer_id_required(arguments,
                    IF ~Truthy(ArgGet(arguments, "amount_requested"))
                    THEN Raises(ValidationException(
                            "amount_requested is required"))
                    ELSE Calls("POST",
                            "customers/" \o customer_id.str \o "/credit-check",
                            Some(JDict(
                                ("amount_requested" :>
                                    arguments["amount_requested"])
                                @@ ("has_purchase_history" :>
                                    IF "has_purchase_history" \in DOMAIN arguments
                                    THEN arguments["has_purchase_history"]
                                    ELSE JBool(FALSE)))),
                            None))
          [] name = "get_credit_check_status" ->
                customer_id_required(arguments,
                    Calls("GET", "customers/" \o customer_id.str, None, None))
          [] name = "validate_customer_data" ->
                IF ~IsNone(_validate_customer_data(arguments, FALSE))
                THEN Raises(Get(_validate_customer_data(arguments, FALSE)))
                ELSE Returns([success |-> TRUE, valid |-> TRUE,
                              message |-> "Customer data is valid"])

\* The success mapping of create_customer, get_customer and update_customer
CustomerResult(response_data, message) ==
    IF ~IsNone(CustomerResponse_from_dict_raises(response_data))
    THEN Get(CustomerResponse_from_dict_raises(response_data))
    ELSE Return([success |-> TRUE,
                 customer |-> CustomerResponse_to_dict(response_data.value),
                 message |-> message])

\* The success mapping of the credit check tools for the mapping data
CreditCheckResult(data, message) ==
    IF ~IsNone(CreditCheckResult_from_dict_raises(data))
    THEN Get(CreditCheckResult_from_dict_raises(data))
    ELSE Return([success |-> TRUE,
                 credit_check |-> CreditCheckResult_to_dict(data),
                 message |-> message])

\* The rest of the try block of the tool method name once the HTTP client
\* returned response_data (a Return, or ReturnsNone)
AfterResponse(name, arguments, response_data) ==
    LET data == response_data.value
        customer_id == ArgGet(arguments, "customer_id")
        Has(key) == HasKey(data, key)
        GetOr(key, default) == IF Has(key) THEN data.dict[key] ELSE default
    IN  CASE name = "create_customer" ->
                CustomerResult(response_data, "Customer created successfully")
          [] name = "get_customer" ->
                CustomerResult(response_data, "Customer retrieved successfully")
          [] name = "update_customer" ->
                CustomerResult(response_data, "Customer updated successfully")
          [] name = "search_customers" ->
                IF response_data.kind = "none"
                THEN PythonException("TypeError",
                        "argument of type 'NoneType' is not iterable")
                ELSE LET results == IF Has("results")
                                    THEN data.dict["results"].list ELSE <<>>
                         bad == SelectSeq(results, LAMBDA c :
                                  ~IsNone(CustomerResponse_from_dict_raises(
                                            Return(c))))
                     IN  IF bad # <<>>
                         THEN Get(CustomerResponse_from_dict_raises(
                                    Return(bad[1])))
                         ELSE Return(
                            [success |-> TRUE,
                             customers |-> [i \in DOMAIN results |->
                                    CustomerResponse_to_dict(results[i])],
                             total |-> IF Has("results")
                                       THEN GetOr("count", JNum(Len(results)))
                                       ELSE JNum(0),
                             page |-> GetOr("page", JNum(1)),
                             limit |-> GetOr("limit", JNum(25)),
                             message |-> "Customers retrieved successfully"])
          [] name = "request_customer_credit_check" ->
                IF response_data.kind = "none"
                THEN PythonException("TypeError",
                        "argument of type 'NoneType' is not iterable")
                ELSE CreditCheckResult(
                        IF Has("customer_id") THEN data
                        ELSE JDict(("customer_id" :> customer_id) @@ data.dict),
                        "Credit check requested successfully")
          [] name = "get_credit_check_status" ->
                IF response_data.kind = "none"
                THEN PythonException("AttributeError",
                        "'NoneType' object has no attribute 'get'")
                ELSE CreditCheckResult(
                        JDict(("customer_id" :> customer_id)
                            @@ ("status" :> GetOr("credit_status", JNull))
                            @@ ("amount_approved" :>
                                    GetOr("amount_approved", JNull))
                            @@ ("amount_available" :>
                                    GetOr("amount_available", JNull))
                            @@ ("credit_limit" :> GetOr("credit_limit", JNull))
                            @@ ("created_at" :>
                                    GetOr("credit_check_requested_at", JNull))
                            @@ ("updated_at" :> GetOr("updated_at", JNull))
                            @@ ("notes" :> JNull)),
                        "Credit check status retrieved successfully")

\* ResolvepayAPIException and its subclasses
APIExceptions ==
    { "ResolvepayAPIException", "ResolvepayRateLimitException",
      "ResolvepayCustomerNotFoundException" }

\* The except clauses of the tool method name for the exception e raised in
\* its try block: the mapping they return, or e when they re-raise it
ExceptIn(name, arguments, e) ==
    CASE name = "create_customer" ->
            Return([success |-> FALSE, customer |-> JNull,
                    error |-> e.message,
                    message |-> "Failed to create customer"])
      [] name = "get_customer" ->
            IF e.cls \in APIExceptions
            THEN IF e.status_code = Some(404)
                 THEN Return([success |-> FALSE, customer |-> JNull,
                              error |-> "Customer not found: "
                                    \o ArgGet(arguments, "customer_id").str,
                              message |-> "Customer not found"])
                 ELSE e
            ELSE Return([success |-> FALSE, customer |-> JNull,
                         error |-> e.message,
                         message |-> "Failed to retrieve customer"])
      [] name = "update_customer" ->
            Return([success |-> FALSE, customer |-> JNull,
                    error |-> e.message,
                    message |-> "Failed to update customer"])
      [] name = "search_customers" ->
            Return([success |-> FALSE, customers |-> <<>>, total |-> JNum(0),
                    error |-> e.message,
                    message |-> "Failed to search customers"])
      [] name = "request_customer_credit_check" ->
            Return([success |-> FALSE, credit_check |-> JNull,
                    error |-> e.message,
                    message |-> "Failed to request credit check"])
      [] name = "get_credit_check_status" ->
            Return([success |-> FALSE, credit_check |-> JNull,
                    error |-> e.message,
                    message |-> "Failed to get credit check status"])
      [] name = "validate_customer_data" ->
            IF e.cls = "ResolvepayValidationException"
            THEN Return([success |-> TRUE, valid |-> FALSE,
                         error |-> e.message,
                         message |-> "Customer data validation failed"])
            ELSE Return([success |-> FALSE, valid |-> FALSE,
                         error |-> e.message,
                         message |-> "Failed to validate customer data"])

\* The wrapper of the decorator handle_resolvepay_errors around the outcome
\* of the method it decorates
handle_resolvepay_errors(outcome) ==
    IF outcome.kind # "raise" THEN outcome
    ELSE IF outcome.cls \in APIExceptions
    THEN PythonException("Exception",
            "ResolvePay API error: " \o outcome.message)
    ELSE IF outcome.cls = "ResolvepayValidationException"
    THEN PythonException("Exception", "Validation error: " \o outcome.message)
    ELSE PythonException("Exception", "Unexpected error: " \o outcome.message)

\* What the decorated tool method gives its caller when its try block ended
\* as inner: a Return, or the exception raised in it
ToolOutcome(name, arguments, inner) ==
    handle_resolvepay_errors(
        IF inner.kind = "raise" THEN ExceptIn(name, arguments, inner)
        ELSE inner)

\* A tool method is called: its try block runs up to the HTTP call
ToolCall(name, arguments) ==
    /\ pc = "idle"
    /\ IsNone(tool)
    /\ tool' = Some([name |-> name, arguments |-> arguments])
    /\ LET b == BeforeRequest(name, arguments)
       IN  tool_result' =
              IF b.op = "request" THEN None
              ELSE IF b.op = "raise"
              THEN Some(ToolOutcome(name, arguments, b.exc))
              ELSE Some(ToolOutcome(name, arguments, Return(b.value)))
    /\ UNCHANGED <<authVars, limiterVars, clientVars, pc, request, attempt,
                   last_exception, history, sent, sleeps, response, result,
                   calls, trace, threadVars>>

\* self.http_client.get / post / put of the tool method in progress
ToolRequest ==
    /\ ~IsNone(tool)
    /\ IsNone(tool_result)
    /\ LET b == BeforeRequest(Get(tool).name, Get(tool).arguments)
       IN  Request(b.method, b.endpoint, b.data, b.params, None, 0)

\* The HTTP client returned or raised: the tool method ends
ToolReturn ==
    /\ pc = "done"
    /\ ~IsNone(tool)
    /\ IsNone(tool_result)
    /\ LET name == Get(tool).name
           arguments == Get(tool).arguments
           r == Get(result)
       IN  tool_result' = Some(ToolOutcome(name, arguments,
                IF r.kind = "raise" THEN r
                ELSE AfterResponse(name, arguments, r)))
    /\ UNCHANGED <<authVars, limiterVars, clientVars, pc, request, attempt,
                   last_exception, history, sent, sleeps, response, result,
                   calls, trace, tool, threadVars>>

-----------------------------------------------------------------------------
(* One tool method call on a freshly constructed connector *)

\* The arguments callers pass to the tool methods
ValidCustomer ==
    ("business_name" :> JStr("Acme")) @@ ("business_address" :> JStr("1 Main St"))
    @@ ("business_city" :> JStr("NY")) @@ ("business_state" :> JStr("NY"))
    @@ ("business_zip" :> JStr("10001")) @@ ("business_country" :> JStr("US"))
    @@ ("business_ap_email" :> JStr("ap@acme.co")) @@ ("email" :> JStr("a@b.co"))

CustomerInputs ==
    { ValidCustomer,
      ("business_ap_phone" :> JStr("212-555-0123")) @@ ValidCustomer,
      ("business_ap_phone" :> JStr("2125550123")) @@ ValidCustomer,
      ("business_country" :> JStr("USA")) @@ ValidCustomer,
      ("email" :> JStr("nobody")) @@ ValidCustomer,
      ("default_terms" :> JStr("net99")) @@ ValidCustomer,
      [f \in DOMAIN ValidCustomer \ {"email", "business_zip"} |->
            ValidCustomer[f]],
      <<>> }

ToolInputs ==
    { [name |-> n, arguments |-> a] :
        n \in {"create_customer", "validate_customer_data"},
        a \in CustomerInputs }
    \cup
    { [name |-> n, arguments |-> a] :
        n \in {"get_customer", "get_credit_check_status"},
        a \in {<<>>, "customer_id" :> JStr("c1")} }
    \cup
    { [name |-> "update_customer", arguments |-> a] :
        a \in { <<>>, "customer_id" :> JStr("c1"),
                ("customer_id" :> JStr("c1")) @@ ("email" :> JStr("new@b.co")),
                ("customer_id" :> JStr("c1")) @@ ("email" :> JStr("nobody")) } }
    \cup
    { [name |-> "search_customers", arguments |-> a] :
        a \in { <<>>, "email" :> JStr("a@b.co"),
                ("limit" :> JNum(10)) @@ ("offset" :> JNum(50)),
                ("limit" :> JNum(0)) @@ ("offset" :> JNum(50)) } }
    \cup
    { [name |-> "request_customer_credit_check", arguments |-> a] :
        a \in { <<>>, "customer_id" :> JStr("c1"),
                ("customer_id" :> JStr("c1"))
                    @@ ("amount_requested" :> JNum(1000)) } }

\* How the upstream answers the call of a tool method
ToolUpstream ==
    { Responded(r) : r \in
        { Response(200, None, CustomerBody),
          Response(200, None, "{\"id\":\"c1\"}"),
          Response(200, None, ""),
          Response(401, None, ""),
          Response(404, None, ""),
          Response(422, None, "{\"error\":{\"message\":\"bad\",\"details\":[{\"path\":\"email\",\"message\":\"invalid\"}]}}"),
          Response(429, Some("5"), ""),
          Response(503, None, "{\"message\":\"boom\"}") } }
    \cup
    { Raised(e) : e \in
        { PythonException("httpx.ReadTimeout", "The read operation timed out"),
          PythonException("httpx.ConnectError",
                          "[Errno 111] Connection refused"),
          PythonException("RuntimeError",
            "Cannot send a request, as the client has been closed.") } }

InitTools ==
    /\ InitAuth
    /\ InitLimiter
    /\ InitCall
    /\ InitThreads
    /\ max_retries \in -1..MaxToolRetries
    /\ InitClient

NextTools ==
    \/ \E t \in ToolInputs : ToolCall(t.name, t.arguments)
    \/ ToolRequest
    \/ \E o \in ToolUpstream : Attempt(o, 0)
    \/ Exhausted
    \/ ToolReturn

SpecTools == InitTools /\ [][NextTools]_vars

-----------------------------------------------------------------------------
(* The Rate Limiter shared by the tasks of one event loop: wait_if_needed,   *)
(* which runs from one await to the next without interruption                *)

Tasks == 1..NumTasks

\* a lock that lets every task in
LockFree_always == TRUE

\* asyncio.Lock.acquire returns without suspending the task: the lock is not
\* held and no task waits for it
LockFree == IsNone(lock.holder) /\ lock.waiters = <<>>

\* Lines 27-36 run by task t, which has just taken the lock and leaves
\* waiters in its queue: the task starts to sleep inside the lock, or stores
\* the time, releases the lock and returns
Section(t, waiters) ==
    IF wait_time(now, last_call_time) > 0
    THEN /\ tcur' = [tcur EXCEPT ![t] = now]
         /\ twake' = [twake EXCEPT ![t] = now + wait_time(now, last_call_time)]
         /\ tpc' = [tpc EXCEPT ![t] = "sleeping"]
         /\ lock' = [holder |-> Some(t), waiters |-> waiters]
         /\ UNCHANGED <<last_call_time, limiter_log, tleft>>
    ELSE /\ last_call_time' = Some(now)
         /\ limiter_log' = Append(limiter_log,
                [op |-> "acquire", start |-> now, slept |-> 0, done |-> now,
                 thread |-> t])
         /\ tpc' = [tpc EXCEPT ![t] = "idle"]
         /\ tleft' = [tleft EXCEPT ![t] = @ - 1]
         /\ lock' = [holder |-> None, waiters |-> waiters]
         /\ UNCHANGED <<tcur, twake>>

\* Lines 23-26: task t calls wait_if_needed; a disabled limiter returns at
\* once, a free lock lets the task in, a held lock suspends it
A_Call(t) ==
    /\ tpc[t] = "idle"
    /\ tleft[t] > 0
    /\ IF calls_per_second <= 0
       THEN /\ tleft' = [tleft EXCEPT ![t] = @ - 1]
            /\ limiter_log' = Append(limiter_log,
                   [op |-> "acquire", start |-> now, slept |-> 0,
                    done |-> now, thread |-> t])
            /\ UNCHANGED <<last_call_time, tpc, tcur, twake, lock>>
       ELSE IF LockFree
       THEN Section(t, lock.waiters)
       ELSE /\ tpc' = [tpc EXCEPT ![t] = "lock_wait"]
            /\ lock' = [lock EXCEPT !.waiters = Append(@, t)]
            /\ UNCHANGED <<last_call_time, limiter_log, tcur, twake, tleft>>
    /\ UNCHANGED <<authVars, calls_per_second, now, clientVars, callVars,
                   tseen, writer, reader>>

\* Line 26: the lock was released and task t is the first in its queue
A_Resume(t) ==
    /\ tpc[t] = "lock_wait"
    /\ IsNone(lock.holder)
    /\ lock.waiters # <<>>
    /\ Head(lock.waiters) = t
    /\ Section(t, Tail(lock.waiters))
    /\ UNCHANGED <<authVars, calls_per_second, now, clientVars, callVars,
                   tseen, writer, reader>>

\* Lines 33-36: asyncio.sleep returns; the task reads the clock, stores the
\* time, releases the lock and returns
A_Wake(t) ==
    /\ tpc[t] = "sleeping"
    /\ now >= twake[t]
    /\ last_call_time' = Some(now)
    /\ limiter_log' = Append(limiter_log,
            [op |-> "acquire", start |-> tcur[t], slept |-> now - tcur[t],
             done |-> now, thread |-> t])
    /\ tpc' = [tpc EXCEPT ![t] = "idle"]
    /\ tleft' = [tleft EXCEPT ![t] = @ - 1]
    /\ lock' = [lock EXCEPT !.holder = None]
    /\ UNCHANGED <<authVars, calls_per_second, now, clientVars, callVars,
                   tcur, twake, tseen, writer, reader>>

NextTasks ==
    \/ \E t \in Tasks : A_Call(t) \/ A_Resume(t) \/ A_Wake(t)
    \/ Tick

\* Every task of the event loop is about to call wait_if_needed once
InitLoop ==
    /\ InitAuth
    /\ InitLimiter
    /\ InitCall
    /\ max_retries = DefaultMaxRetries
    /\ InitClient
    /\ tpc = [t \in Tasks |-> "idle"]
    /\ tcur = [t \in Tasks |-> 0]
    /\ twake = [t \in Tasks |-> 0]
    /\ tseen = [t \in Tasks |-> None]
    /\ tleft = [t \in Tasks |-> 1]
    /\ InitTasks

\* The event loop runs every task that can run, and time passes
SpecTasks ==
    /\ InitLoop
    /\ [][NextTasks]_vars
    /\ WF_vars(Tick)
    /\ \A t \in Tasks : WF_vars(A_Call(t) \/ A_Resume(t) \/ A_Wake(t))

-----------------------------------------------------------------------------
(* The Credential Provider shared by two threads: update_credentials and     *)
(* get_auth_headers statement by statement                                   *)

\* The credentials the writing thread passes to update_credentials
SwapInputs ==
    { [merchant_id |-> "m1", api_key |-> "k1"],
      [merchant_id |-> "m2", api_key |-> "k2"],
      [merchant_id |-> "", api_key |-> "k2"],
      [merchant_id |-> "m2", api_key |-> ""] }

\* Lines 57-60: update_credentials(m, k) checks its arguments and raises, or
\* goes on to the assignments
W_Validate(m, k) ==
    /\ IsNone(writer)
    /\ IF IsNone(update_credentials_error(m, k))
       THEN /\ writer' = Some([pc |-> "write_id",
                               merchant_id |-> m, api_key |-> k])
            /\ UNCHANGED auth_call
       ELSE /\ auth_call' = Some([merchant_id |-> m, api_key |-> k,
                                  error |-> update_credentials_error(m, k)])
            /\ UNCHANGED writer
    /\ UNCHANGED <<merchant_id, api_key, prepared, rendered, limiterVars,
                   clientVars, callVars, tpc, tcur, twake, tseen, tleft,
                   lock, reader>>

\* Line 62: self.merchant_id = merchant_id
W_WriteId ==
    /\ ~IsNone(writer)
    /\ Get(writer).pc = "write_id"
    /\ merchant_id' = Get(writer).merchant_id
    /\ writer' = Some([Get(writer) EXCEPT !.pc = "write_key"])
    /\ UNCHANGED <<api_key, auth_call, prepared, rendered, limiterVars,
                   clientVars, callVars, tpc, tcur, twake, tseen, tleft,
                   lock, reader>>

\* Line 63: self.api_key = api_key; the call returns
W_WriteKey ==
    /\ ~IsNone(writer)
    /\ Get(writer).pc = "write_key"
    /\ api_key' = Get(writer).api_key
    /\ auth_call' = Some([merchant_id |-> Get(writer).merchant_id,
                          api_key |-> Get(writer).api_key, error |-> None])
    /\ writer' = None
    /\ UNCHANGED <<merchant_id, prepared, rendered, limiterVars,
                   clientVars, callVars, tpc, tcur, twake, tseen, tleft,
                   lock, reader>>

\* Line 30: get_auth_headers is called; the f-string reads self.merchant_id
R_ReadId ==
    /\ IsNone(reader)
    /\ Len(rendered) < MaxRenders
    /\ reader' = Some([merchant_id |-> merchant_id])
    /\ UNCHANGED <<authVars, limiterVars, clientVars, callVars, tpc, tcur,
                   twake, tseen, tleft, lock, writer>>

\* Lines 30-37: the f-string reads self.api_key; the headers are returned
R_ReadKey ==
    /\ ~IsNone(reader)
    /\ rendered' = Append(rendered,
            [merchant_id |-> Get(reader).merchant_id, api_key |-> api_key,
             headers |-> get_auth_headers(Get(reader).merchant_id, api_key)])
    /\ reader' = None
    /\ UNCHANGED <<merchant_id, api_key, auth_call, prepared, limiterVars,
                   clientVars, callVars, tpc, tcur, twake, tseen, tleft,
                   lock, writer>>

NextSwap ==
    \/ \E c \in SwapInputs : W_Validate(c.merchant_id, c.api_key)
    \/ W_WriteId
    \/ W_WriteKey
    \/ R_ReadId
    \/ R_ReadKey

SpecSwap == InitLimiterAlone /\ [][NextSwap]_vars

-----------------------------------------------------------------------------
(* A session: one caller makes execute calls one after the other on one      *)
(* connector, whose credentials are replaced once at any moment               *)

\* get / post / put / delete return to the caller what _request returned or
\* raised; the caller may call again
Complete ==
    /\ pc = "done"
    /\ pc' = "idle"
    /\ UNCHANGED <<authVars, limiterVars, clientVars, request, attempt,
                   last_exception, history, sent, sleeps, response, result,
                   calls, trace, tool, tool_result, threadVars>>

\* update_credentials(m, k) called once, between two steps of the caller
Replace(m, k) ==
    /\ IsNone(auth_call)
    /\ update_credentials(m, k)
    /\ trace' = Append(trace, Step("replace", calls, attempt, now))
    /\ UNCHANGED <<limiterVars, clientVars, pc, request, attempt,
                   last_exception, history, sent, sleeps, response, result,
                   calls, tool, tool_result, threadVars>>

SessionInputs == {c \in CallInputs : c.method = "POST"}

SessionCredentials == {[merchant_id |-> "m2", api_key |-> "k2"]}

SessionUpstream ==
    { Responded(Response(200, None, "{\"id\":\"c1\"}")),
      Responded(Response(404, None, "")),
      Responded(Response(503, None, "")),
      Raised(PythonException("httpx.ReadTimeout",
                             "The read operation timed out")) }

InitSession ==
    /\ InitAuth
    /\ InitLimiter
    /\ InitCall
    /\ InitThreads
    /\ max_retries \in -1..MaxSessionRetries
    /\ InitClient

NextSession ==
    \/ \E c \in SessionInputs :
          Request(c.method, c.endpoint, c.data, c.params, c.headers, 0)
    \/ \E o \in SessionUpstream : Attempt(o, 0)
    \/ Exhausted
    \/ Complete
    \/ \E c \in SessionCredentials : Replace(c.merchant_id, c.api_key)

SpecSession == InitSession /\ [][NextSession]_vars

-----------------------------------------------------------------------------
(* Claims about one execute call (Spec) *)

Done == pc = "done"
Classified == _handle_response(Get(response), request)
RetryableStatuses == {StatusOf(c) : c \in {429, 500, 502, 503, 504}}
TimeoutsAndConnectErrors ==
    {ErrorOf(c) : c \in TimeoutExceptions \cup ConnectErrors}
AnyRequestError == {ErrorOf(c) : c \in RequestErrors}
AllAttempts(kinds) == \A i \in 1..Len(history) : history[i] \in kinds

\* C1: the outcome a direct caller of execute sees for a response that is not
\* retried is exactly the Classifier's outcome for that response: the same
\* mapping, or the same failure category, status code and message.
C1_CallerSeesClassifierOutcome ==
    (Done /\ ~IsNone(response)) => Get(result) = Classified

\* C2: when every attempt returned a retryable status, the call ends after
\* max_retries + 1 attempts with the category of the last response: Generic
\* with status 503 for all-503, RateLimited for all-429.
C2_ExhaustionKeepsCategory ==
    (Done /\ max_retries >= 0 /\ AllAttempts(RetryableStatuses)) =>
        /\ Len(history) = max_retries + 1
        /\ Get(result).kind = "raise"
        /\ Get(result).cls = Classified.cls
        /\ Get(result).status_code = Classified.status_code
        /\ AllAttempts({StatusOf(503)}) =>
              /\ Get(result).cls = "ResolvepayAPIException"
              /\ Get(result).status_code = Some(503)
        /\ AllAttempts({StatusOf(429)}) =>
              Get(result).cls = "ResolvepayRateLimitException"

\* C3 as stated: at most max_retries + 1 attempts, and an attempt is followed
\* by another only if it ended in a retryable status, a timeout or a
\* connection error.
C3_RetryOnlyAfterStatusTimeoutOrConnect ==
    max_retries >= 0 =>
        /\ Len(history) <= max_retries + 1
        /\ \A i \in 1..(Len(history) - 1) :
              history[i] \in RetryableStatuses \cup TimeoutsAndConnectErrors

\* C3 (amended): one execute call issues at most max_retries + 1 attempts (4
\* with the default of 3 retries), and an attempt is followed by another only
\* if it ended in a status of {429, 500, 502, 503, 504} or in any
\* httpx.RequestError (timeouts and connection errors among them) while fewer
\* than max_retries retries had been used.
C3_RetryOnlyAfterStatusOrRequestError ==
    max_retries >= 0 =>
        /\ Len(history) <= max_retries + 1
        /\ max_retries = DefaultMaxRetries => Len(history) <= 4
        /\ \A i \in 1..(Len(history) - 1) :
              /\ history[i] \in RetryableStatuses \cup AnyRequestError
              /\ i - 1 < max_retries

C3_Witness ==
    /\ Done
    /\ max_retries = DefaultMaxRetries
    /\ Len(history) = 4
    /\ history[1] = StatusOf(502)
    /\ history[2] = ErrorOf("httpx.TooManyRedirects")
    /\ history[3] = ErrorOf("httpx.ReadTimeout")

\* C4: the backoff after attempt k (0-indexed) is 2^k seconds, after statuses
\* and transport errors alike, and no sleep follows the last attempt;
\* [503, 503, 200] with max_retries = 3 sleeps 1s then 2s and returns the
\* body of the 200 response.
C4_ExponentialBackoff ==
    /\ \A k \in 1..Len(sleeps) : sleeps[k] = 2 ^ (k - 1)
    /\ Len(sleeps) = IF Done /\ history # <<>>
                     THEN Len(history) - 1 ELSE Len(history)
    /\ (Done /\ max_retries = 3
            /\ history = <<StatusOf(503), StatusOf(503), StatusOf(200)>>) =>
          /\ sleeps = <<1, 2>>
          /\ Get(response).text = "{\"id\":\"c1\"}" =>
                Get(result) = Return(JDict("id" :> JStr("c1")))
          /\ Get(response).text = "" => Get(result) = Return(EmptyDict)

C4_Witness ==
    /\ Done
    /\ max_retries = 3
    /\ history = <<StatusOf(503), StatusOf(503), StatusOf(200)>>
    /\ Get(response).text = "{\"id\":\"c1\"}"
    /\ sleeps = <<1, 2>>

\* C5 as stated: an attempt that ends in a status outside the retryable set,
\* or in an error other than a timeout or a connection error, is the last
\* attempt of the call and is followed by no sleep.
C5_TerminalUnlessStatusTimeoutOrConnect ==
    \A i \in 1..Len(history) :
        history[i] \notin RetryableStatuses \cup TimeoutsAndConnectErrors =>
            /\ Done
            /\ i = Len(history)
            /\ Len(sleeps) = i - 1

\* C5 (amended): an attempt that ends in a status outside {429, 500, 502,
\* 503, 504}, or in an error that is no httpx.RequestError, is terminal: no
\* further attempt and no backoff sleep, whatever retry budget remains.
C5_TerminalUnlessStatusOrRequestError ==
    \A i \in 1..Len(history) :
        history[i] \notin RetryableStatuses \cup AnyRequestError =>
            /\ Done
            /\ i = Len(history)
            /\ Len(sleeps) = i - 1

C5_Witness ==
    /\ Done
    /\ max_retries = 3
    /\ history = <<StatusOf(503), ErrorOf("RuntimeError")>>
    /\ sleeps = <<1>>

\* C6: when every attempt fails with a timeout or a connection error, the call
\* ends after max_retries + 1 attempts by raising a ResolvepayAPIException
\* with a status code and a message describing the error; it returns no
\* mapping and raises no raw transport exception.
C6_TransportExhaustionRaisesGeneric ==
    (Done /\ max_retries >= 0 /\ history # <<>>
          /\ AllAttempts(TimeoutsAndConnectErrors)) =>
        /\ Len(history) = max_retries + 1
        /\ Get(result).kind = "raise"
        /\ Get(result).cls = "ResolvepayAPIException"
        /\ IF history[Len(history)] = ErrorOf("httpx.ConnectError")
           THEN /\ Get(result).status_code = Some(503)
                /\ Get(result).message =
                      "Connection error: [Errno 111] Connection refused"
           ELSE /\ Get(result).status_code = Some(408)
                /\ Get(result).message = "Request timeout after 30 seconds"

C6_Witness ==
    /\ Done
    /\ max_retries = 2
    /\ history = <<ErrorOf("httpx.ReadTimeout"), ErrorOf("httpx.ConnectError"),
                   ErrorOf("httpx.ConnectError")>>
    /\ Get(result).status_code = Some(503)

-----------------------------------------------------------------------------
(* Claims about the Rate Limiter (SpecLimiter, SpecThreads) *)

IsAcquire(i) == limiter_log[i].op = "acquire"

\* C7: with a single caller and a ceiling C > 0, two consecutive acquire()
\* calls complete at least 1/C apart; with C = 0 acquire() never delays.
C7_ConsecutiveAcquiresSpaced ==
    /\ calls_per_second > 0 =>
          \A i \in 1..(Len(limiter_log) - 1) :
              (IsAcquire(i) /\ IsAcquire(i + 1)) =>
                  (limiter_log[i + 1].done - limiter_log[i].done)
                        * calls_per_second >= TicksPerSecond
    /\ calls_per_second = 0 =>
          \A i \in 1..Len(limiter_log) :
              limiter_log[i].slept = 0 /\ limiter_log[i].done = limiter_log[i].start

C7_Witness ==
    /\ calls_per_second = 1
    /\ \E i \in 1..(Len(limiter_log) - 1) :
          /\ IsAcquire(i) /\ IsAcquire(i + 1)
          /\ limiter_log[i + 1].start = limiter_log[i].done + 1
          /\ limiter_log[i + 1].slept > 0
          /\ limiter_log[i + 1].done = limiter_log[i].done + TicksPerSecond

\* C8: concurrent callers of the blocking acquire() exclude each other between
\* reading last_call_time and writing it, so any two permitted calls are at
\* least minimum_interval apart.
C8_SharedAcquireIsExclusive ==
    /\ Cardinality({t \in DOMAIN tpc : tpc[t] \in {"sleeping", "write"}}) <= 1
    /\ calls_per_second > 0 =>
          \A i, j \in 1..Len(limiter_log) :
              i < j =>
                  \/ (limiter_log[j].done - limiter_log[i].done)
                        * calls_per_second >= TicksPerSecond
                  \/ (limiter_log[i].done - limiter_log[j].done)
                        * calls_per_second >= TicksPerSecond

-----------------------------------------------------------------------------
(* Claims about the Credential Provider and the header merge (SpecAuth) *)

\* C9: whatever extra headers the caller supplies, the merged headers keep the
\* provider's Authorization, Content-Type and Accept values.
C9_CallerHeadersNeverOverride ==
    [][prepared' # prepared =>
          \A h \in {"Authorization", "Content-Type", "Accept"} :
              Get(prepared')[h] = get_auth_headers(merchant_id', api_key')[h]]_vars

\* C10: update_credentials with an empty identifier or secret fails with a
\* Configuration error and leaves both fields as they were; with two
\* non-empty arguments it stores both; so both stored fields are non-empty
\* after construction and any sequence of replace calls.
C10_ReplaceIsAllOrNothing ==
    /\ [](merchant_id # "" /\ api_key # "")
    /\ [][auth_call' # auth_call =>
            LET c == Get(auth_call')
            IN  IF c.merchant_id = "" \/ c.api_key = ""
                THEN /\ ~IsNone(c.error)
                     /\ Get(c.error).cls = "ResolvepayConfigurationException"
                     /\ merchant_id' = merchant_id
                     /\ api_key' = api_key
                ELSE /\ IsNone(c.error)
                     /\ merchant_id' = c.merchant_id
                     /\ api_key' = c.api_key]_vars

C10_Witness ==
    /\ ~IsNone(auth_call)
    /\ Get(auth_call).merchant_id = "m2"
    /\ Get(auth_call).api_key = ""
    /\ ~IsNone(Get(auth_call).error)
    /\ merchant_id = "m1"
    /\ api_key = "k2"

-----------------------------------------------------------------------------
(* Claims about the Response Classifier (SpecClassifier) *)

Classifying(codes) ==
    pc = "classified" /\ Get(response).status_code \in codes

\* The message the specification's extraction rule gives for a body
ExtractedByRule(resp) ==
    LET body == _safe_json_decode(resp)
        err == body.dict["error"]
    IN  IF IsDict(body) /\ HasKey(body, "error") /\ IsDict(err)
              /\ HasKey(err, "message")
        THEN IF HasKey(err, "details") /\ IsList(err.dict["details"])
                  /\ Truthy(err.dict["details"])
             THEN err.dict["message"].str \o " - "
                      \o JoinDetails(err.dict["details"].list)
             ELSE err.dict["message"].str
        ELSE IF IsDict(body) /\ HasKey(body, "message")
        THEN body.dict["message"].str
        ELSE IF resp.text # "" THEN resp.text
        ELSE "Unknown error"

\* C11: every response with status 401 is classified as an Authentication
\* failure with the fixed message, whatever its body and headers are.
C11_UnauthorizedIsAuthenticationFailure ==
    Classifying({401}) =>
        Get(result) =
            Raise("ResolvepayAuthenticationException", None,
                  "Authentication failed. Check merchant_id and api_key.",
                  None, EmptyDict, EmptyDict)

C11_Witness ==
    /\ Classifying({401})
    /\ Get(response).text = "{\"error\":{\"message\":\"bad\"}}"
    /\ Get(response).retry_after = Some("5")
    /\ Get(result).cls = "ResolvepayAuthenticationException"

\* C12: every response with status 429 is classified as a RateLimited failure,
\* whatever the Retry-After header holds; retry_after is the integer of the
\* header (5 for "5") and None when the header is absent.
C12_TooManyRequestsIsRateLimited ==
    Classifying({429}) =>
        /\ Get(result).kind = "raise"
        /\ Get(result).cls = "ResolvepayRateLimitException"
        /\ IsNone(Get(response).retry_after) =>
              Get(result).retry_after = None
        /\ Get(response).retry_after = Some("5") =>
              Get(result).retry_after = Some(5)

\* C13 as stated: every response with status 404 is classified as a NotFound
\* failure whose details payload holds the requested URL and the method.
C13_NotFoundCarriesUrlAndMethodInDetails ==
    Classifying({404}) =>
        /\ Get(result).cls = "ResolvepayAPIException"
        /\ Get(result).status_code = Some(404)
        /\ Get(result).details =
              JDict(("url" :> JStr(request.url))
                    @@ ("method" :> JStr(request.method)))

\* C13 (amended): every response with status 404 is classified as a
\* ResolvepayAPIException with status 404 and the message "Resource not
\* found" that carries the requested URL and the HTTP method in its
\* response_data payload; its details payload is empty.
C13_NotFoundCarriesUrlAndMethodInResponseData ==
    Classifying({404}) =>
        /\ Get(result).kind = "raise"
        /\ Get(result).cls = "ResolvepayAPIException"
        /\ Get(result).status_code = Some(404)
        /\ Get(result).message = "Resource not found"
        /\ Get(result).response_data =
              JDict(("url" :> JStr(request.url))
                    @@ ("method" :> JStr(request.method)))
        /\ Get(result).details = EmptyDict

C13_Witness ==
    /\ Classifying({404})
    /\ request.method = "POST"
    /\ Get(response).text = "{\"message\":\"boom\"}"
    /\ Get(result).response_data =
          JDict(("url" :> JStr("https://api.resolvepay.com/v5/customers"))
                @@ ("method" :> JStr("POST")))

\* C14: status 400 and 422 are classified as a Validation failure whose
\* message is the label of the status, ": ", and the message extracted from
\* the body: error.message with the entries of a non-empty error.details
\* appended, else the top-level message, else the raw text, else "Unknown
\* error"; 422 with the body of the example gives "Business validation
\* error: bad - email: invalid".
C14_ValidationMessageIsExtracted ==
    Classifying({400, 422}) =>
        /\ Get(result).kind = "raise"
        /\ Get(result).cls = "ResolvepayValidationException"
        /\ Get(result).message =
              (IF Get(response).status_code = 400 THEN "Validation error"
               ELSE "Business validation error")
                  \o ": " \o ExtractedByRule(Get(response))
        /\ (Get(response).status_code = 422 /\ Get(response).text =
              "{\"error\":{\"message\":\"bad\",\"details\":[{\"path\":\"email\",\"message\":\"invalid\"}]}}") =>
                Get(result).message =
                    "Business validation error: bad - email: invalid"

\* C15: every other non-2xx status is classified as a Generic failure with
\* that status and the decoded body, and a message extracted by the rule of
\* the validation failures without the label.
C15_OtherErrorMessageIsExtracted ==
    (pc = "classified" /\ ~is_success(Get(response))
        /\ Get(response).status_code \notin {401, 429, 404, 400, 422}) =>
        /\ Get(result).kind = "raise"
        /\ Get(result).cls = "ResolvepayAPIException"
        /\ Get(result).status_code = Some(Get(response).status_code)
        /\ Get(result).response_data = _safe_json_decode(Get(response))
        /\ Get(response).text # "" =>
              Get(result).message = ExtractedByRule(Get(response))

\* C16: a 2xx response other than 204 is classified as the decoded body when
\* the body is valid JSON (an empty JSON object included), as
\* {"raw_response": text} exactly when the body is non-empty and not valid
\* JSON, and as an empty mapping exactly when the body is empty.
C16_SuccessBodyIsDecoded ==
    (pc = "classified" /\ is_success(Get(response))
        /\ Get(response).status_code # 204) =>
        Get(result) =
            IF ~IsNone(JsonLoads(Get(response).text))
            THEN Return(Get(JsonLoads(Get(response).text)))
            ELSE IF Get(response).text # ""
            THEN Return(JDict("raw_response" :> JStr(Get(response).text)))
            ELSE Return(EmptyDict)

\* C17: every response with status 204 is classified as success with an
\* empty mapping, whatever its body contains.
C17_NoContentIsEmptyMapping ==
    Classifying({204}) => Get(result) = Return(EmptyDict)

C17_Witness ==
    /\ Classifying({204})
    /\ Get(response).text = "{\"id\":\"c1\"}"
    /\ Get(result) = Return(EmptyDict)

-----------------------------------------------------------------------------
(* Claims about the Rate Limiter's timestamp (SpecLimiter) *)

\* The step is a call of acquire() that returns
AcquireReturns ==
    /\ Len(limiter_log') = Len(limiter_log) + 1
    /\ limiter_log'[Len(limiter_log')].op = "acquire"

\* C19 as stated: for every ceiling, after an acquire() that returns the
\* timestamp is present, is the post-wait current time and is not earlier
\* than it was before the call.
C19_AcquireAlwaysStamps ==
    [][AcquireReturns =>
          /\ last_call_time' = Some(now')
          /\ ~IsNone(last_call_time) =>
                Get(last_call_time') >= Get(last_call_time)]_vars

\* C19 (amended): with a ceiling C > 0, acquire() sets last_call_time to the
\* post-wait current time as its last action, so the timestamp is present and
\* not earlier than before the call; with C <= 0 acquire() returns at once
\* without sleeping and leaves last_call_time as it was.
C19_AcquireStampsUnderPositiveCeiling ==
    [][AcquireReturns =>
          IF calls_per_second > 0
          THEN /\ last_call_time' = Some(now')
               /\ limiter_log'[Len(limiter_log')].done = now'
               /\ ~IsNone(last_call_time) =>
                     Get(last_call_time') >= Get(last_call_time)
          ELSE /\ last_call_time' = last_call_time
               /\ now' = now]_vars

C19_Witness ==
    /\ calls_per_second = 1
    /\ Len(limiter_log) >= 2
    /\ IsAcquire(Len(limiter_log))
    /\ limiter_log[Len(limiter_log)].slept > 0
    /\ limiter_log[Len(limiter_log)].done > limiter_log[Len(limiter_log)].start
    /\ last_call_time = Some(limiter_log[Len(limiter_log)].done)

-----------------------------------------------------------------------------
(* Claims about get_auth_headers (SpecRender) *)

HasColon(s) == \E i \in 1..Len(s) : SubSeq(s, i, i) = ":"

\* The position of a character in the base64 alphabet
B64Index(c) == CHOOSE n \in 0..63 : B64Char(n) = c

\* The bytes a base64 text decodes to
RECURSIVE B64decode(_)
B64decode(t) ==
    IF Len(t) < 4 THEN <<>>
    ELSE LET c(i) == SubSeq(t, i, i)
             a == B64Index(c(1))
             b == B64Index(c(2))
             first == a * 4 + b \div 16
         IN  IF c(3) = "=" THEN <<first>>
             ELSE IF c(4) = "="
             THEN <<first, (b % 16) * 16 + B64Index(c(3)) \div 4>>
             ELSE <<first, (b % 16) * 16 + B64Index(c(3)) \div 4,
                    (B64Index(c(3)) % 4) * 64 + B64Index(c(4))>>
                  \o B64decode(SubSeq(t, 5, Len(t)))

\* The base64 text of an Authorization value
Payload(authorization) == SubSeq(authorization, 7, Len(authorization))

\* C20: get_auth_headers changes no state; calls under the same credentials
\* return identical Authorization, Content-Type and Accept values; the
\* Authorization value is "Basic " followed by a base64 text that decodes to
\* "{identifier}:{secret}"; two different credential pairs whose identifiers
\* hold no colon never give the same Authorization value.
C20_RenderIsIdempotentAndInjective ==
    /\ [](\A i \in 1..Len(rendered) :
            LET r == rendered[i]
            IN  /\ DOMAIN r.headers = {"Authorization", "Content-Type", "Accept"}
                /\ r.headers["Content-Type"] = "application/json"
                /\ r.headers["Accept"] = "application/json"
                /\ SubSeq(r.headers["Authorization"], 1, 6) = "Basic "
                /\ B64decode(Payload(r.headers["Authorization"]))
                      = Encode(r.merchant_id \o ":" \o r.api_key)
                /\ \A j \in 1..Len(rendered) :
                      LET q == rendered[j]
                      IN  /\ (q.merchant_id = r.merchant_id
                                /\ q.api_key = r.api_key) =>
                                    q.headers = r.headers
                          /\ (~HasColon(q.merchant_id) /\ ~HasColon(r.merchant_id)
                                /\ <<q.merchant_id, q.api_key>>
                                      # <<r.merchant_id, r.api_key>>) =>
                                    q.headers["Authorization"]
                                        # r.headers["Authorization"])
    /\ [][rendered' # rendered =>
            /\ merchant_id' = merchant_id
            /\ api_key' = api_key
            /\ prepared' = prepared]_vars

C20_Witness ==
    /\ Len(rendered) = 2
    /\ rendered[1].merchant_id = "m1" /\ rendered[1].api_key = "k1:k2"
    /\ rendered[2].merchant_id = "m2" /\ rendered[2].api_key = "k1"
    /\ rendered[1].headers["Authorization"] = "Basic bTE6azE6azI="
    /\ rendered[2].headers["Authorization"] = "Basic bTI6azE="

-----------------------------------------------------------------------------
(* Claims about the tool methods (SpecTools) *)

ToolDone == ~IsNone(tool_result)

\* Local validation failed, or the pipeline raised
ToolFailed ==
    \/ BeforeRequest(Get(tool).name, Get(tool).arguments).op = "raise"
    \/ ~IsNone(result) /\ Get(result).kind = "raise"

\* C18: every tool method returns a mapping, for every upstream outcome; when
\* local validation or the pipeline failed, the mapping has success = false
\* and an error message, and no exception reaches the caller.
C18_ToolsReturnFailureMappings ==
    ToolDone =>
        /\ Get(tool_result).kind = "return"
        /\ ToolFailed =>
              /\ Get(tool_result).value.success = FALSE
              /\ "error" \in DOMAIN Get(tool_result).value
              /\ Get(tool_result).value.error # ""

-----------------------------------------------------------------------------
(* Claims about the steps of execute calls (Spec, SpecSession) *)

\* A step of the run taken by an execute call
CallStep ==
    calls' # calls \/ history' # history \/ result' # result \/ pc' # pc

RetryableKinds ==
    RetryableStatuses \cup {ErrorOf(c) : c \in RequestErrors}

\* The steps of execute call n, in order
CallSteps(n) ==
    SelectSeq(trace, LAMBDA e : e.call = n /\ e.ev # "replace")

\* The transport calls of the run, in order
Attempts == SelectSeq(trace, LAMBDA e : e.ev = "attempt")

\* C21: execute calls are independent: a step of a call, successful or not,
\* leaves the credentials, base URL, timeout, max_retries and ceiling as they
\* were; every call starts at attempt 0 with no last exception, no sleeps and
\* no result; its k-th backoff is 2^(k-1) seconds, starting at 1s; and a call
\* whose last attempt ended retryably has made all max_retries + 1 attempts.
C21_CallsAreIndependent ==
    /\ [][CallStep => UNCHANGED <<merchant_id, api_key, base_url, timeout,
                                  max_retries, calls_per_second>>]_vars
    /\ [][calls' # calls =>
            /\ attempt' = 0
            /\ last_exception' = None
            /\ sleeps' = <<>>
            /\ history' = <<>>
            /\ result' = None]_vars
    /\ [](/\ attempt = Len(sleeps)
          /\ \A k \in 1..Len(sleeps) : sleeps[k] = 2 ^ (k - 1)
          /\ Len(history) <= max_retries + 1
          /\ (pc # "loop" /\ history # <<>>
                /\ history[Len(history)] \in RetryableKinds) =>
                Len(history) = max_retries + 1)

\* The second call, made after a first call that used its retry and failed
\* with a timeout, retries once after 1s and succeeds
C21_Witness ==
    /\ calls = 2
    /\ max_retries = 1
    /\ pc = "done"
    /\ \E i \in DOMAIN trace :
          trace[i] = Step("attempt", 1, 1, trace[i].at)
    /\ \A i \in DOMAIN trace :
          ~(trace[i].call = 1 /\ trace[i].ev = "classify")
    /\ history = <<StatusOf(503), StatusOf(200)>>
    /\ sleeps = <<1>>
    /\ Get(result).kind = "return"
    /\ merchant_id = "m1"

\* C22: within one execute call the Classifier runs at most once, on the
\* response of the attempt just made, and no attempt of the call follows it;
\* a response whose status led to a retry is not classified and gives the
\* caller no result.
C22_ClassifierRunsOnceOnLastResponse ==
    /\ \A i \in DOMAIN trace : trace[i].ev = "classify" =>
          /\ i > 1
          /\ trace[i - 1] =
                Step("attempt", trace[i].call, trace[i].attempt, trace[i].at)
          /\ \A j \in DOMAIN trace : j > i => trace[j].call # trace[i].call
          /\ trace[i].attempt = Len(history) - 1
          /\ history[Len(history)] \in {StatusOf(r.status_code) : r \in Responses}
    /\ pc = "loop" =>
          /\ IsNone(result)
          /\ \A i \in DOMAIN trace : trace[i].ev # "classify"

\* 503, 429, then 404: only the 404 response is classified
C22_Witness ==
    /\ Done
    /\ history = <<StatusOf(503), StatusOf(429), StatusOf(404)>>
    /\ Len(SelectSeq(trace, LAMBDA e : e.ev = "classify")) = 1
    /\ trace[Len(trace)] = Step("classify", 1, 2, now)
    /\ Get(result).kind = "raise"

\* C23: every execute call makes exactly one rate limiter call, which returns
\* before the headers are rendered and before the first transport call; the
\* steps of a call are acquire, headers, then transport calls, with the
\* Classifier last if it runs; no retry is preceded by another acquire.
C23_AcquireHeadersAttemptsClassifier ==
    /\ Len(limiter_log) = calls
    /\ \A n \in 1..calls :
          LET E == CallSteps(n)
          IN  /\ Len(E) >= 2
              /\ E[1].ev = "acquire"
              /\ E[2].ev = "headers"
              /\ limiter_log[n].op = "acquire"
              /\ limiter_log[n].done = E[1].at
              /\ \A i \in 3..Len(E) :
                    /\ E[i].ev \in {"attempt", "classify", "after_loop"}
                    /\ E[i].at >= E[1].at
                    /\ E[i].ev = "classify" => i = Len(E)
                    /\ E[i].ev = "attempt" =>
                          E[i].attempt = Len(SelectSeq(SubSeq(E, 1, i - 1),
                                LAMBDA e : e.ev = "attempt"))

\* Two calls, the first with a retry: two acquires, three transport calls
C23_Witness ==
    /\ calls = 2
    /\ Len(limiter_log) = 2
    /\ Len(SelectSeq(CallSteps(1), LAMBDA e : e.ev = "attempt")) = 2
    /\ Len(SelectSeq(CallSteps(2), LAMBDA e : e.ev = "attempt")) = 1
    /\ CallSteps(2)[Len(CallSteps(2))].ev = "classify"

\* C24: under a ceiling C >= 1 any two consecutive transport calls of the run
\* are at least min_interval = 1/C apart, the last attempt of one execute
\* call and the first attempt of the next included.
C24_ConsecutiveAttemptsSpaced ==
    calls_per_second >= 1 =>
        \A i \in 1..(Len(Attempts) - 1) :
            Attempts[i + 1].at - Attempts[i].at >= min_interval

\* The request each attempt of the call in progress has to send: that of the
\* caller, under the credentials in force when the call started
RequestOf(c) ==
    LET acquire == CHOOSE i \in DOMAIN trace :
                        trace[i].ev = "acquire" /\ trace[i].call = calls
        replaced == \E j \in 1..(acquire - 1) : trace[j].ev = "replace"
        authorization ==
            IF replaced
            THEN get_auth_headers("m2", "k2")["Authorization"]
            ELSE get_auth_headers("m1", "k1")["Authorization"]
    IN  [method |-> c.method,
         url |-> "https://api.resolvepay.com/v5/customers",
         headers |-> ("Authorization" :> authorization)
                     @@ ("Content-Type" :> "application/json")
                     @@ ("Accept" :> "application/json")
                     @@ Get(c.headers),
         params |-> None,
         json |-> c.data]

\* C25: every attempt of an execute call sends the same method, URL, query
\* parameters, body and headers, with the Authorization value rendered when
\* the call started, also when the credentials are replaced between two
\* attempts; the headers hold no deduplication token.
C25_RetriesResendTheSameRequest ==
    \A i \in DOMAIN sent :
        /\ sent[i] = sent[1]
        /\ \E c \in SessionInputs : sent[i] = RequestOf(c)
        /\ DOMAIN sent[i].headers =
              {"Authorization", "Content-Type", "Accept", "X-Request-Id"}

\* The credentials were replaced between the two attempts of a call
C25_Witness ==
    /\ calls >= 1
    /\ Len(sent) = 2
    /\ merchant_id = "m2"
    /\ api_key = "k2"
    /\ sent[2].headers["Authorization"] = "Basic bTE6azE="
    /\ \E i, j, k \in DOMAIN trace :
          /\ i < j /\ j < k
          /\ trace[i].ev = "attempt" /\ trace[i].call = calls
          /\ trace[j].ev = "replace"
          /\ trace[k].ev = "attempt" /\ trace[k].call = calls

-----------------------------------------------------------------------------
(* Claims about the Credential Provider shared by threads (SpecSwap) *)

\* The pairs the provider was constructed with or a replace accepted
InstalledPairs ==
    { <<"m1", "k1">> } \cup
    { <<c.merchant_id, c.api_key>> : c \in
        {c \in SwapInputs : c.merchant_id # "" /\ c.api_key # ""} }

\* C26: a get_auth_headers that runs while another thread replaces the
\* credentials returns the Authorization value of the old pair or of the new
\* pair, never that of the new identifier with the old secret (or the old
\* identifier with the new secret).
C26_ConcurrentRenderSeesOnePair ==
    \A i \in DOMAIN rendered :
        /\ <<rendered[i].merchant_id, rendered[i].api_key>> \in InstalledPairs
        /\ rendered[i].headers["Authorization"] \in
              { get_auth_headers(p[1], p[2])["Authorization"] :
                    p \in InstalledPairs }

-----------------------------------------------------------------------------
(* Claims about the Rate Limiter shared by tasks (SpecTasks) *)

\* The tasks inside the read / wait / write section of wait_if_needed
InSection == {t \in Tasks : tpc[t] = "sleeping"}

\* C27: when the tasks of one event loop call wait_if_needed under a ceiling
\* C > 0, at most one task is inside the read / wait / write section, the
\* tasks return in the order of their timestamps at least min_interval apart,
\* each having waited as the blocking acquire does, and every task returns.
C27_TasksAreSerialisedAndSpaced ==
    /\ [](calls_per_second > 0 =>
            /\ Cardinality(InSection) <= 1
            /\ \A t \in InSection : lock.holder = Some(t)
            /\ \A i \in DOMAIN limiter_log :
                  /\ limiter_log[i].done =
                        limiter_log[i].start + limiter_log[i].slept
                  /\ i > 1 =>
                        /\ limiter_log[i].done - limiter_log[i - 1].done
                              >= min_interval
                        /\ limiter_log[i].slept >=
                              wait_time(limiter_log[i].start,
                                        Some(limiter_log[i - 1].done))
            /\ limiter_log # <<>> =>
                  last_call_time = Some(limiter_log[Len(limiter_log)].done))
    /\ <>(\A t \in Tasks : tleft[t] = 0 /\ tpc[t] = "idle")

\* One task sleeps inside the section while another waits for the lock
C27_Witness ==
    /\ calls_per_second > 0
    /\ \E t, u \in Tasks :
          /\ tpc[t] = "sleeping"
          /\ lock.holder = Some(t)
          /\ tpc[u] = "lock_wait"
          /\ lock.waiters = <<u>>

-----------------------------------------------------------------------------
(* Claims about get_customer and local validation (SpecTools) *)

\* C28: when the upstream answers 404 to the request of get_customer, the
\* method returns {success: false, customer: null, error: "Customer not
\* found: <customer_id>", message: "Customer not found"}; it does not raise
\* and does not report "Failed to retrieve customer".
C28_GetCustomerReportsNotFound ==
    (/\ ToolDone
     /\ Get(tool).name = "get_customer"
     /\ ~IsNone(response)
     /\ Get(response).status_code = 404) =>
        Get(tool_result) =
            Return([success |-> FALSE, customer |-> JNull,
                    error |-> "Customer not found: "
                        \o Get(tool).arguments["customer_id"].str,
                    message |-> "Customer not found"])

\* The customer fields of the arguments a have a format the local checks
\* reject
BadFormat(a) ==
    \/ "business_country" \in DOMAIN a /\ Len(a["business_country"].str) # 2
    \/ \E f \in {"email", "business_ap_email"} :
          f \in DOMAIN a /\ ~Contains(a[f].str, "@")
    \/ "business_ap_phone" \in DOMAIN a
          /\ ~MatchesPhone(a["business_ap_phone"].str)

\* The arguments a of the tool method name lack a customer_id, a required
\* field or the amount_requested, or have a bad format
FailsLocalValidation(name, a) ==
    CASE name \in {"get_customer", "get_credit_check_status"} ->
            "customer_id" \notin DOMAIN a
      [] name = "request_customer_credit_check" ->
            "customer_id" \notin DOMAIN a \/ "amount_requested" \notin DOMAIN a
      [] name = "update_customer" ->
            "customer_id" \notin DOMAIN a \/ BadFormat(a)
      [] name = "create_customer" ->
            \/ \E f \in {"business_name", "business_address", "business_city",
                         "business_state", "business_zip", "business_country",
                         "business_ap_email", "email"} : f \notin DOMAIN a
            \/ BadFormat(a)
      [] OTHER -> FALSE

\* No rate limiter call, no transport call, no timestamp
NoOutboundCall ==
    /\ pc = "idle"
    /\ calls = 0
    /\ trace = <<>>
    /\ sent = <<>>
    /\ limiter_log = <<>>
    /\ IsNone(last_call_time)

-----------------------------------------------------------------------------
(* Claims about the termination of an execute call (SpecLive) *)

====
